---- MODULE Spec2Model ----
(***************************************************************************)
(* A model of the tool-calling agent loop of travel.py (class BaseAgent):  *)
(* the call parser (_parse_function_calls, _parse_parameters), the tool    *)
(* executor (_execute_function) and the conversation loop (query).         *)
(*                                                                         *)
(* Text.  A Python str is a sequence of characters; a character is a       *)
(* one-character TLA+ string.  Three words are kept as single atoms to     *)
(* keep texts short: the marker literal "CALL_FUNCTION:", its lower-case   *)
(* spelling "call_function:" and the identifier "function_name".           *)
(*                                                                         *)
(* Values.  A Python value is a record [t, s, n, l]: t is the type tag,    *)
(* s the characters of a str / bytes / exception message, n the number of  *)
(* an int or bool, l the elements of a list or the key, value, key, value  *)
(* ... items of a dict.                                                    *)
(***************************************************************************)
EXTENDS Integers, Sequences, FiniteSets, TLC

(***************************************************************************)
(* Characters                                                              *)
(***************************************************************************)
Marker == "CALL_FUNCTION:"
LowerMarker == "call_function:"

Letters == {"a", "b", "c", "f", "g", "h", "x", "y", "function_name"}
Digits == {"0", "1", "2", "3", "4", "5", "6", "7", "8", "9"}
\* \w of the pattern: alphanumerics and the underscore
WordChars == Letters \cup Digits \cup {"_"}
\* \s of the pattern, and what str.strip() removes
Whitespace == {" ", "\n"}

(***************************************************************************)
(* str helpers                                                             *)
(***************************************************************************)
RECURSIVE Concat(_)
\* "".join(parts)
Concat(parts) ==
    IF parts = <<>> THEN <<>> ELSE Head(parts) \o Concat(Tail(parts))

RECURSIVE Join(_, _)
\* sep.join(parts)
Join(sep, parts) ==
    IF parts = <<>> THEN <<>>
    ELSE IF Len(parts) = 1 THEN parts[1]
    ELSE parts[1] \o sep \o Join(sep, Tail(parts))

RECURSIVE LStrip(_, _)
LStrip(s, chars) ==
    IF s # <<>> /\ Head(s) \in chars THEN LStrip(Tail(s), chars) ELSE s

RECURSIVE RStrip(_, _)
RStrip(s, chars) ==
    IF s # <<>> /\ s[Len(s)] \in chars
    THEN RStrip(SubSeq(s, 1, Len(s) - 1), chars) ELSE s

\* s.strip(chars): every leading and trailing character of the set is removed
Strip(s, chars) == RStrip(LStrip(s, chars), chars)

RECURSIVE Split(_, _)
\* s.split(sep) for a one-character separator: always at least one piece
Split(s, sep) ==
    IF \E i \in 1..Len(s) : s[i] = sep
    THEN LET i == CHOOSE k \in 1..Len(s) :
                     s[k] = sep /\ \A m \in 1..(k - 1) : s[m] # sep
         IN  <<SubSeq(s, 1, i - 1)>> \o Split(SubSeq(s, i + 1, Len(s)), sep)
    ELSE <<s>>

\* s.split(sep, 1) of a string that contains sep: the text before the first
\* separator and everything after it
SplitFirst(s, sep) ==
    LET i == CHOOSE k \in 1..Len(s) :
                 s[k] = sep /\ \A m \in 1..(k - 1) : s[m] # sep
    IN  <<SubSeq(s, 1, i - 1), SubSeq(s, i + 1, Len(s))>>

Contains(s, ch) == \E i \in 1..Len(s) : s[i] = ch

\* whether pat occurs in s as a contiguous substring
IsSubstring(pat, s) ==
    \E i \in 0..(Len(s) - Len(pat)) : SubSeq(s, i + 1, i + Len(pat)) = pat

IsPrefix(p, s) == Len(p) <= Len(s) /\ SubSeq(s, 1, Len(p)) = p

(***************************************************************************)
(* The marker pattern  CALL_FUNCTION:\s*(\w+)\((.*?)\)  with re.DOTALL     *)
(***************************************************************************)
RECURSIVE SkipWhile(_, _, _)
\* the first position >= i of text whose character is not in chars
SkipWhile(text, i, chars) ==
    IF i <= Len(text) /\ text[i] \in chars
    THEN SkipWhile(text, i + 1, chars) ELSE i

\* a pattern compiled with re.IGNORECASE would match the marker in any case
MarkerAtAnyCase(text, i) == text[i] \in {Marker, LowerMarker}

\* the literal CALL_FUNCTION: of the pattern, which matches in this case only
MarkerAt(text, i) == text[i] = Marker

\* the match of a pattern whose argument group is greedy, (.*): the capture
\* runs to the last ")" of the text
MatchAtGreedy(text, i) ==
    IF ~MarkerAt(text, i) THEN [ok |-> FALSE]
    ELSE LET j == SkipWhile(text, i + 1, Whitespace)
             k == SkipWhile(text, j, WordChars)
         IN  IF k = j \/ k > Len(text) \/ text[k] # "(" THEN [ok |-> FALSE]
             ELSE IF \E m \in (k + 1)..Len(text) : text[m] = ")"
             THEN LET m == CHOOSE c \in (k + 1)..Len(text) :
                               text[c] = ")"
                               /\ \A d \in (c + 1)..Len(text) : text[d] # ")"
                  IN  [ok |-> TRUE, func_name |-> SubSeq(text, j, k - 1),
                       params_str |-> SubSeq(text, k + 1, m - 1), end |-> m]
             ELSE [ok |-> FALSE]

\* The match of the pattern that starts at position i, or "none".  \s* and
\* \w+ are greedy and share no character with what follows them, so there is
\* one way to match; (.*?) is lazy and, with DOTALL, runs over anything up to
\* the first ")".
MatchAt(text, i) ==
    IF ~MarkerAt(text, i) THEN [ok |-> FALSE]
    ELSE LET j == SkipWhile(text, i + 1, Whitespace)
             k == SkipWhile(text, j, WordChars)
         IN  IF k = j \/ k > Len(text) \/ text[k] # "(" THEN [ok |-> FALSE]
             ELSE IF \E m \in (k + 1)..Len(text) : text[m] = ")"
             THEN LET m == CHOOSE c \in (k + 1)..Len(text) :
                               text[c] = ")"
                               /\ \A d \in (k + 1)..(c - 1) : text[d] # ")"
                  IN  [ok |-> TRUE, func_name |-> SubSeq(text, j, k - 1),
                       params_str |-> SubSeq(text, k + 1, m - 1), end |-> m]
             ELSE [ok |-> FALSE]

RECURSIVE FindAllFrom(_, _)
\* re.findall: the non-overlapping matches, scanning left to right
FindAllFrom(text, i) ==
    IF i > Len(text) THEN <<>>
    ELSE LET m == MatchAt(text, i)
         IN  IF m.ok
             THEN <<[func_name |-> m.func_name, params_str |-> m.params_str]>>
                  \o FindAllFrom(text, m.end + 1)
             ELSE FindAllFrom(text, i + 1)

FindAll(text) == FindAllFrom(text, 1)

(***************************************************************************)
(* Python values                                                           *)
(***************************************************************************)
PyVal(t, s, n, l) == [t |-> t, s |-> s, n |-> n, l |-> l]
PyStr(s) == PyVal("str", s, 0, <<>>)
PyBytes(s) == PyVal("bytes", s, 0, <<>>)
PyInt(n) == PyVal("int", <<>>, n, <<>>)
PyBool(b) == PyVal("bool", <<>>, IF b THEN 1 ELSE 0, <<>>)
PyNone == PyVal("None", <<>>, 0, <<>>)
PyList(l) == PyVal("list", <<>>, 0, l)
\* a dict: l holds key1, value1, key2, value2, ... in insertion order
PyDict(items) == PyVal("dict", <<>>, 0, items)
\* a value json cannot serialize and str() can render (a set, a datetime)
PyObject == PyVal("object", <<>>, 0, <<>>)
\* the outcome of evaluating an expression that raises
PyRaise == PyVal("raise", <<>>, 0, <<>>)

IsNumber(v) == v.t \in {"int", "bool"}

RECURSIVE PyEq(_, _)
\* v == w of Python: numbers compare by value (True == 1), lists by elements
PyEq(v, w) ==
    IF IsNumber(v) /\ IsNumber(w) THEN v.n = w.n
    ELSE IF v.t # w.t THEN FALSE
    ELSE IF v.t \in {"str", "bytes"} THEN v.s = w.s
    ELSE IF v.t = "list"
         THEN Len(v.l) = Len(w.l) /\ \A i \in 1..Len(v.l) : PyEq(v.l[i], w.l[i])
    ELSE v.t = "None"

DictKeys(d) == [i \in 1..(Len(d.l) \div 2) |-> d.l[2 * i - 1]]
DictValues(d) == [i \in 1..(Len(d.l) \div 2) |-> d.l[2 * i]]
DictHas(d, k) == \E i \in 1..(Len(d.l) \div 2) : PyEq(d.l[2 * i - 1], k)
DictGet(d, k) ==
    d.l[2 * (CHOOSE i \in 1..(Len(d.l) \div 2) : PyEq(d.l[2 * i - 1], k))]
\* d[k] = v: an existing key keeps its place and gets the new value
DictSet(d, k, v) ==
    IF DictHas(d, k)
    THEN LET i == CHOOSE j \in 1..(Len(d.l) \div 2) : PyEq(d.l[2 * j - 1], k)
         IN  PyDict([d.l EXCEPT ![2 * i] = v])
    ELSE PyDict(d.l \o <<k, v>>)
EmptyDict == PyDict(<<>>)

(***************************************************************************)
(* eval() of the argument text: the tokens of a Python expression.         *)
(* Argument texts are drawn from ArgChars; over that alphabet (one digit,  *)
(* no underscore, no backslash, no braces, no operators but "=" and "==")  *)
(* the tokens and the grammar below are all of Python's expression syntax  *)
(* that a text can reach.                                                  *)
(***************************************************************************)
Quotes == {"\"", "'"}
Keywords == {"True", "False", "None"}
\* the letters of ArgChars that are string prefixes: b"..." and f"..."
StringPrefixes == {<<"b">>, <<"f">>}
IdentChars == WordChars \cup Keywords
ArgChars ==
    {"a", "b", "c", "f", "x", "y", "function_name", "1", "=", ",", "[", "]",
     "(", "\"", "'", " ", "\n"} \cup Keywords

Tok(k, s, n) == [k |-> k, s |-> s, n |-> n]
ErrTok == Tok("err", <<>>, 0)

DigitVal(c) ==
    CASE c = "0" -> 0 [] c = "1" -> 1 [] c = "2" -> 2 [] c = "3" -> 3
      [] c = "4" -> 4 [] c = "5" -> 5 [] c = "6" -> 6 [] c = "7" -> 7
      [] c = "8" -> 8 [] c = "9" -> 9

RECURSIVE DecimalValue(_)
DecimalValue(s) ==
    IF s = <<>> THEN 0
    ELSE 10 * DecimalValue(SubSeq(s, 1, Len(s) - 1)) + DigitVal(s[Len(s)])

\* The string literal whose opening quote is s[i]: a triple-quoted literal
\* ends at the next three quotes, a single-quoted one at the next quote and
\* may not span a line break.
LexString(s, i) ==
    LET c == s[i]
        triple == i + 2 <= Len(s) /\ s[i + 1] = c /\ s[i + 2] = c
        Closes3(m) == m + 2 <= Len(s) /\ s[m] = c /\ s[m + 1] = c /\ s[m + 2] = c
    IN  IF triple
        THEN IF \E m \in (i + 3)..Len(s) : Closes3(m)
             THEN LET m == CHOOSE k \in (i + 3)..Len(s) :
                               Closes3(k) /\ \A d \in (i + 3)..(k - 1) : ~Closes3(d)
                  IN  [ok |-> TRUE, s |-> SubSeq(s, i + 3, m - 1), p |-> m + 3]
             ELSE [ok |-> FALSE, s |-> <<>>, p |-> 0]
        ELSE IF \E m \in (i + 1)..Len(s) : s[m] = c
             THEN LET m == CHOOSE k \in (i + 1)..Len(s) :
                               s[k] = c /\ \A d \in (i + 1)..(k - 1) : s[d] # c
                  IN  IF \E d \in (i + 1)..(m - 1) : s[d] = "\n"
                      THEN [ok |-> FALSE, s |-> <<>>, p |-> 0]
                      ELSE [ok |-> TRUE, s |-> SubSeq(s, i + 1, m - 1), p |-> m + 1]
             ELSE [ok |-> FALSE, s |-> <<>>, p |-> 0]

\* a run of digits Python rejects as a decimal literal: it starts with 0 and
\* holds a digit that is not 0 (01 is a syntax error, 0 and 00 are not)
LeadingZero(digits) ==
    Head(digits) = "0" /\ \E j \in 1..Len(digits) : digits[j] # "0"

RECURSIVE Lex(_, _)
\* The tokens of s from position i on; a text that cannot be tokenized ends
\* in an error token.
Lex(s, i) ==
    IF i > Len(s) THEN <<>>
    ELSE LET c == s[i] IN
    IF c = "\n" THEN <<Tok("nl", <<>>, 0)>> \o Lex(s, i + 1)
    ELSE IF c \in Whitespace THEN Lex(s, i + 1)
    ELSE IF c \in Quotes
    THEN LET r == LexString(s, i)
         IN  IF r.ok THEN <<Tok("str", r.s, 0)>> \o Lex(s, r.p) ELSE <<ErrTok>>
    ELSE IF c \in Digits
    THEN LET k == SkipWhile(s, i, Digits)
         IN  IF k <= Len(s) /\ s[k] \in IdentChars THEN <<ErrTok>>
             ELSE IF LeadingZero(SubSeq(s, i, k - 1)) THEN <<ErrTok>>
             ELSE <<Tok("num", <<>>, DecimalValue(SubSeq(s, i, k - 1)))>> \o Lex(s, k)
    ELSE IF c \in IdentChars
    THEN LET k == SkipWhile(s, i, IdentChars)
             name == SubSeq(s, i, k - 1)
         IN  IF name \in StringPrefixes /\ k <= Len(s) /\ s[k] \in Quotes
             THEN LET r == LexString(s, k)
                  IN  IF r.ok
                      THEN <<Tok(IF name = <<"b">> THEN "bytes" ELSE "str", r.s, 0)>>
                           \o Lex(s, r.p)
                      ELSE <<ErrTok>>
             ELSE IF Len(name) = 1 /\ name[1] \in Keywords
             THEN <<Tok("kw", name, 0)>> \o Lex(s, k)
             ELSE <<Tok("name", name, 0)>> \o Lex(s, k)
    ELSE IF c = "="
    THEN IF i + 1 <= Len(s) /\ s[i + 1] = "="
         THEN <<Tok("op", <<"==">>, 0)>> \o Lex(s, i + 2)
         ELSE <<Tok("op", <<"=">>, 0)>> \o Lex(s, i + 1)
    ELSE IF c \in {",", "[", "]", "("}
    THEN <<Tok("op", <<c>>, 0)>> \o Lex(s, i + 1)
    ELSE <<ErrTok>>

IsOp(ts, p, o) == p <= Len(ts) /\ ts[p].k = "op" /\ ts[p].s = <<o>>

RECURSIVE DropNewlines(_)
\* inside brackets a line break is white space
DropNewlines(ts) ==
    IF ts = <<>> THEN <<>>
    ELSE IF Head(ts).k = "nl" THEN DropNewlines(Tail(ts))
    ELSE <<Head(ts)>> \o DropNewlines(Tail(ts))

RECURSIVE BreaksLine(_, _)
\* whether a line break occurs outside every bracket (depth counts the open
\* brackets): there an expression ends, and what follows is a SyntaxError
BreaksLine(ts, depth) ==
    IF ts = <<>> THEN FALSE
    ELSE IF Head(ts).k = "nl" THEN depth <= 0 \/ BreaksLine(Tail(ts), depth)
    ELSE IF Head(ts).k = "op" /\ Head(ts).s \in {<<"[">>, <<"(">>}
    THEN BreaksLine(Tail(ts), depth + 1)
    ELSE IF Head(ts).k = "op" /\ Head(ts).s = <<"]">>
    THEN BreaksLine(Tail(ts), depth - 1)
    ELSE BreaksLine(Tail(ts), depth)

(***************************************************************************)
(* eval() of the argument text: the grammar.  A parse result is            *)
(* [ok, v, p]: ok is FALSE for a SyntaxError, v is the value (PyRaise when *)
(* evaluating raises), p the position after the parsed phrase.  The two    *)
(* failures are kept apart because a chained comparison does not evaluate  *)
(* the operands after a false link.                                        *)
(***************************************************************************)
ParseFail == [ok |-> FALSE, v |-> PyNone, p |-> 0]
Parsed(v, p) == [ok |-> TRUE, v |-> v, p |-> p]

\* ord() of the one-character strings of ArgChars
Ord(c) ==
    CASE c = "a" -> 97 [] c = "b" -> 98 [] c = "c" -> 99 [] c = "f" -> 102
      [] c = "x" -> 120 [] c = "y" -> 121 [] c = "1" -> 49 [] c = "=" -> 61
      [] c = "," -> 44 [] c = "[" -> 91 [] c = "]" -> 93 [] c = "(" -> 40
      [] c = "\"" -> 34 [] c = "'" -> 39 [] c = " " -> 32 [] c = "\n" -> 10
      [] OTHER -> 0

\* v[idx]
Index(v, idx) ==
    IF v.t = "raise" \/ idx.t = "raise" \/ ~IsNumber(idx) THEN PyRaise
    ELSE IF v.t = "str"
         THEN IF idx.n < Len(v.s) THEN PyStr(<<v.s[idx.n + 1]>>) ELSE PyRaise
    ELSE IF v.t = "bytes"
         THEN IF idx.n < Len(v.s) THEN PyInt(Ord(v.s[idx.n + 1])) ELSE PyRaise
    ELSE IF v.t = "list"
         THEN IF idx.n < Len(v.l) THEN v.l[idx.n + 1] ELSE PyRaise
    ELSE PyRaise

RECURSIVE StringRunEnd(_, _)
\* the position after the run of adjacent string literals that starts at p
StringRunEnd(ts, p) ==
    IF p <= Len(ts) /\ ts[p].k \in {"str", "bytes"}
    THEN StringRunEnd(ts, p + 1) ELSE p

RECURSIVE ParseExpr(_, _)
RECURSIVE ParsePrimary(_, _)
RECURSIVE ParseListItems(_, _, _, _)
RECURSIVE ParseTrailers(_, _, _)
RECURSIVE ParseChain(_, _, _, _)

\* after the item e of a list display: "," and more items, or the "]"
ListItemsAfter(ts, acc, raised, e) ==
    IF ~e.ok THEN ParseFail
    ELSE IF IsOp(ts, e.p, ",")
    THEN ParseListItems(ts, e.p + 1, Append(acc, e.v), raised \/ e.v.t = "raise")
    ELSE IF IsOp(ts, e.p, "]")
    THEN Parsed(IF raised \/ e.v.t = "raise" THEN PyRaise
                ELSE PyList(Append(acc, e.v)), e.p + 1)
    ELSE ParseFail

\* the items of a list display up to its "]"; a trailing comma is allowed
ParseListItems(ts, p, acc, raised) ==
    IF IsOp(ts, p, "]")
    THEN Parsed(IF raised THEN PyRaise ELSE PyList(acc), p + 1)
    ELSE ListItemsAfter(ts, acc, raised, ParseExpr(ts, p))

\* the run of adjacent string literals ts[p..q-1]: they are concatenated, and
\* bytes and str literals do not mix
StringAtom(ts, p, q) ==
    IF \E i \in p..(q - 1) : ts[i].k # ts[p].k THEN ParseFail
    ELSE Parsed(PyVal(ts[p].k, Concat([i \in 1..(q - p) |-> ts[p + i - 1].s]),
                      0, <<>>), q)

ParseAtom(ts, p) ==
    IF p > Len(ts) THEN ParseFail
    ELSE IF ts[p].k = "num" THEN Parsed(PyInt(ts[p].n), p + 1)
    ELSE IF ts[p].k = "kw"
    THEN Parsed(IF ts[p].s = <<"None">> THEN PyNone
                ELSE PyBool(ts[p].s = <<"True">>), p + 1)
    \* no name is bound where eval runs: NameError
    ELSE IF ts[p].k = "name" THEN Parsed(PyRaise, p + 1)
    ELSE IF ts[p].k \in {"str", "bytes"} THEN StringAtom(ts, p, StringRunEnd(ts, p))
    ELSE IF IsOp(ts, p, "[") THEN ParseListItems(ts, p + 1, <<>>, FALSE)
    ELSE ParseFail

\* a tuple as the index (the items after its first comma are r): TypeError
TupleIndexAfter(ts, r) ==
    IF r.ok THEN ParseTrailers(ts, r.p, PyRaise) ELSE ParseFail

\* after the index expression e of a subscript of v
SubscriptAfter(ts, v, e) ==
    IF ~e.ok THEN ParseFail
    ELSE IF IsOp(ts, e.p, "]") THEN ParseTrailers(ts, e.p + 1, Index(v, e.v))
    ELSE IF IsOp(ts, e.p, ",")
    THEN TupleIndexAfter(ts, ParseListItems(ts, e.p + 1, <<>>, FALSE))
    ELSE ParseFail

\* subscripts after an atom; a call's "(" can never be closed inside the
\* captured argument text
ParseTrailers(ts, p, v) ==
    IF IsOp(ts, p, "[") THEN SubscriptAfter(ts, v, ParseExpr(ts, p + 1))
    ELSE IF IsOp(ts, p, "(") THEN ParseFail
    ELSE Parsed(v, p)

PrimaryAfter(ts, a) == IF a.ok THEN ParseTrailers(ts, a.p, a.v) ELSE ParseFail

ParsePrimary(ts, p) == PrimaryAfter(ts, ParseAtom(ts, p))

\* after the right operand r of an "==" whose left operand is left
ChainAfter(ts, left, acc, r) ==
    IF ~r.ok THEN ParseFail
    ELSE ParseChain(ts, r.p, r.v,
                    IF acc \in {"false", "raise"} THEN acc
                    ELSE IF left.t = "raise" \/ r.v.t = "raise" THEN "raise"
                    ELSE IF PyEq(left, r.v) THEN "true" ELSE "false")

\* left == right == ...: acc is "none" before the first "==", then "true",
\* "false" (the rest is parsed and not evaluated) or "raise"
ParseChain(ts, p, left, acc) ==
    IF IsOp(ts, p, "==") THEN ChainAfter(ts, left, acc, ParsePrimary(ts, p + 1))
    ELSE Parsed(CASE acc = "none" -> left
                  [] acc = "true" -> PyBool(TRUE)
                  [] acc = "false" -> PyBool(FALSE)
                  [] acc = "raise" -> PyRaise, p)

ExprAfter(ts, a) == IF a.ok THEN ParseChain(ts, a.p, a.v, "none") ELSE ParseFail

ParseExpr(ts, p) == ExprAfter(ts, ParsePrimary(ts, p))

\* whether the tokens raw of a whole text, parsed to e from the tokens ts,
\* make an expression that evaluates
ExprOk(raw, ts, e) ==
    /\ \A i \in 1..Len(ts) : ts[i].k # "err"
    /\ ~BreaksLine(raw, 0)
    /\ e.ok /\ e.p = Len(ts) + 1 /\ e.v.t # "raise"

ExprResult(raw, ts) ==
    LET e == ParseExpr(ts, 1)
    IN  IF ExprOk(raw, ts, e) THEN [ok |-> TRUE, v |-> e.v]
        ELSE [ok |-> FALSE, v |-> PyNone]

\* eval(text) of one expression: "ok" is FALSE when eval raises
EvalTokens(raw) == ExprResult(raw, DropNewlines(raw))

EvalExpr(text) == EvalTokens(Lex(text, 1))

(***************************************************************************)
(* eval(f"dict({params_str})")                                             *)
(***************************************************************************)
RECURSIVE ParseArgs(_, _, _, _)

\* after the value e of an argument (a keyword argument named key, or a
\* positional one): an argument whose value raises makes the whole eval raise
ArgAfter(ts, pos, kw, keyword, key, e) ==
    IF ~e.ok \/ e.v.t = "raise" THEN [ok |-> FALSE, pos |-> pos, kw |-> kw]
    ELSE IF e.p > Len(ts) \/ IsOp(ts, e.p, ",")
    THEN ParseArgs(ts, e.p + 1,
                   IF keyword THEN pos ELSE Append(pos, e.v),
                   IF keyword THEN DictSet(kw, key, e.v) ELSE kw)
    ELSE [ok |-> FALSE, pos |-> pos, kw |-> kw]

\* The arguments of the dict(...) call from position p on: pos holds the
\* positional values, kw the keyword arguments so far.  A repeated keyword
\* and a positional argument after a keyword are SyntaxErrors; a trailing
\* comma is allowed.
ParseArgs(ts, p, pos, kw) ==
    IF p > Len(ts) THEN [ok |-> Len(pos) + Len(kw.l) > 0, pos |-> pos, kw |-> kw]
    ELSE IF ts[p].k = "name" /\ IsOp(ts, p + 1, "=")
    THEN IF DictHas(kw, PyStr(ts[p].s)) THEN [ok |-> FALSE, pos |-> pos, kw |-> kw]
         ELSE ArgAfter(ts, pos, kw, TRUE, PyStr(ts[p].s), ParseExpr(ts, p + 2))
    ELSE IF kw.l # <<>> THEN [ok |-> FALSE, pos |-> pos, kw |-> kw]
    ELSE ArgAfter(ts, pos, kw, FALSE, PyNone, ParseExpr(ts, p))

\* one element of dict(iterable): a sequence of exactly two items, the first
\* of them hashable
PairOf(e) ==
    IF e.t = "list" /\ Len(e.l) = 2 /\ e.l[1].t # "list"
    THEN [ok |-> TRUE, k |-> e.l[1], v |-> e.l[2]]
    ELSE IF e.t = "str" /\ Len(e.s) = 2
    THEN [ok |-> TRUE, k |-> PyStr(<<e.s[1]>>), v |-> PyStr(<<e.s[2]>>)]
    ELSE IF e.t = "bytes" /\ Len(e.s) = 2
    THEN [ok |-> TRUE, k |-> PyInt(Ord(e.s[1])), v |-> PyInt(Ord(e.s[2]))]
    ELSE [ok |-> FALSE, k |-> PyNone, v |-> PyNone]

RECURSIVE DictUpdatePairs(_, _)
DictUpdatePairs(d, elems) ==
    IF elems = <<>> THEN d
    ELSE LET q == PairOf(Head(elems))
         IN  DictUpdatePairs(DictSet(d, q.k, q.v), Tail(elems))

\* dict(v) for the one positional argument
DictFromIterable(v) ==
    IF v.t \in {"str", "bytes"}
    THEN [ok |-> v.s = <<>>, v |-> EmptyDict]
    ELSE IF v.t = "list"
    THEN IF \A i \in 1..Len(v.l) : PairOf(v.l[i]).ok
         THEN [ok |-> TRUE, v |-> DictUpdatePairs(EmptyDict, v.l)]
         ELSE [ok |-> FALSE, v |-> EmptyDict]
    ELSE [ok |-> FALSE, v |-> EmptyDict]

RECURSIVE DictUpdate(_, _)
\* d.update(other)
DictUpdate(d, items) ==
    IF items = <<>> THEN d
    ELSE DictUpdate(DictSet(d, items[1], items[2]), Tail(Tail(items)))

\* dict(*pos, **kw) for the parsed arguments a
DictCall(a) ==
    IF ~a.ok \/ Len(a.pos) > 1 THEN [ok |-> FALSE, v |-> EmptyDict]
    ELSE IF Len(a.pos) = 0 THEN [ok |-> TRUE, v |-> a.kw]
    ELSE IF DictFromIterable(a.pos[1]).ok
    THEN [ok |-> TRUE, v |-> DictUpdate(DictFromIterable(a.pos[1]).v, a.kw.l)]
    ELSE [ok |-> FALSE, v |-> EmptyDict]

DictResult(ts) ==
    IF \E i \in 1..Len(ts) : ts[i].k = "err" THEN [ok |-> FALSE, v |-> EmptyDict]
    ELSE DictCall(ParseArgs(ts, 1, <<>>, EmptyDict))

\* eval(f"dict({params_str})"): ok is FALSE when it raises
EvalDict(params_str) == DictResult(DropNewlines(Lex(params_str, 1)))

(***************************************************************************)
(* BaseAgent._parse_parameters                                             *)
(***************************************************************************)
\* a value that is stripped of whitespace only
StripValueKeepsQuotes(value) == Strip(value, Whitespace)

\* value.strip().strip('"').strip("'")
StripValue(value) == Strip(Strip(Strip(value, Whitespace), {"\""}), {"'"})

\* the value stored for a pair: a bracketed list is evaluated (lit is the
\* outcome of eval(value)), and kept as text when eval raises
FallbackValue(value, lit) ==
    IF value # <<>> /\ Head(value) = "[" /\ value[Len(value)] = "]" /\ lit.ok
    THEN lit.v ELSE PyStr(value)

FallbackStore(params, key, value) ==
    DictSet(params, PyStr(key), FallbackValue(value, EvalExpr(value)))

\* key, value = pair.split('=', 1) and the stripping of both
FallbackPair(params, kv) ==
    FallbackStore(params, Strip(kv[1], Whitespace), StripValue(kv[2]))

FallbackStep(params, pair) ==
    IF Contains(pair, "=") THEN FallbackPair(params, SplitFirst(pair, "="))
    ELSE params

RECURSIVE FallbackPairs(_, _)
\* the loop over param_pairs of the fallback pass
FallbackPairs(pairs, params) ==
    IF pairs = <<>> THEN params
    ELSE FallbackPairs(Tail(pairs),
                       FallbackStep(params, Strip(Head(pairs), Whitespace)))

FallbackParse(params_str) == FallbackPairs(Split(params_str, ","), EmptyDict)

PrimaryOrFallback(params_str, primary) ==
    IF primary.ok THEN primary.v ELSE FallbackParse(params_str)

\* a parser that has the permissive pass only
ParseParametersFallbackOnly(params_str) ==
    IF Strip(params_str, Whitespace) = <<>> THEN EmptyDict
    ELSE FallbackParse(params_str)

\* _parse_parameters: the dict (a PyDict) of the argument text
ParseParameters(params_str) ==
    IF Strip(params_str, Whitespace) = <<>> THEN EmptyDict
    ELSE PrimaryOrFallback(params_str, EvalDict(params_str))

(***************************************************************************)
(* The tool registry (self.tools) and BaseAgent._parse_function_calls      *)
(*                                                                         *)
(* A tool is [name, id, params, sig, doc]: __name__, an identity that      *)
(* tells two tools of one name apart, the names of its parameters, whether *)
(* inspect.signature can introspect it, and its __doc__ (<<>> for None).   *)
(* A registry is the dict self.tools as the sequence of its values in      *)
(* insertion order.                                                        *)
(***************************************************************************)
HasTool(reg, name) == \E i \in 1..Len(reg) : reg[i].name = name
GetTool(reg, name) == reg[CHOOSE i \in 1..Len(reg) : reg[i].name = name]

\* a registry that keeps the first tool registered under a name
RegistryAddFirstWins(reg, tool) ==
    IF HasTool(reg, tool.name) THEN reg ELSE Append(reg, tool)

\* self.tools[tool.__name__] = tool
RegistryAdd(reg, tool) ==
    IF HasTool(reg, tool.name)
    THEN LET i == CHOOSE j \in 1..Len(reg) : reg[j].name = tool.name
         IN  [reg EXCEPT ![i] = tool]
    ELSE Append(reg, tool)

RECURSIVE RegisterAll(_, _)
\* the loop of __init__ over the tool list
RegisterAll(reg, toolList) ==
    IF toolList = <<>> THEN reg
    ELSE RegisterAll(RegistryAdd(reg, Head(toolList)), Tail(toolList))

Registry(toolList) == RegisterAll(<<>>, toolList)

\* a parser without the membership test of line 56
RecognizedAlways(reg, func_name) == TRUE

\* if func_name in self.tools
Recognized(reg, func_name) == HasTool(reg, func_name)

RECURSIVE CallsOfReversed(_, _)
\* a parser that puts each call in front of the ones found before it
CallsOfReversed(reg, matches) ==
    IF matches = <<>> THEN <<>>
    ELSE LET m == Head(matches)
         IN  IF HasTool(reg, m.func_name)
             THEN CallsOfReversed(reg, Tail(matches))
                  \o <<[function |-> m.func_name,
                        parameters |-> ParseParameters(m.params_str)]>>
             ELSE CallsOfReversed(reg, Tail(matches))

RECURSIVE CallsOf(_, _)
\* the loop over the matches: a match whose name is not registered is dropped
CallsOf(reg, matches) ==
    IF matches = <<>> THEN <<>>
    ELSE LET m == Head(matches)
         IN  IF Recognized(reg, m.func_name)
             THEN <<[function |-> m.func_name,
                     parameters |-> ParseParameters(m.params_str)]>>
                  \o CallsOf(reg, Tail(matches))
             ELSE CallsOf(reg, Tail(matches))

\* _parse_function_calls(text) of an agent whose registry is reg
ParseFunctionCalls(reg, text) == CallsOf(reg, FindAll(text))

(***************************************************************************)
(* Rendering a tool result (query, line 149): json.dumps(result, indent=2) *)
(* for a dict or a list, str(result) for anything else                     *)
(***************************************************************************)
RECURSIVE IntText(_)
\* str(n) for n >= 0
IntText(n) ==
    LET d == <<"0", "1", "2", "3", "4", "5", "6", "7", "8", "9">>[(n % 10) + 1]
    IN  IF n < 10 THEN <<d>> ELSE IntText(n \div 10) \o <<d>>

RECURSIVE JsonEscape(_)
\* the characters of a str inside a JSON string
JsonEscape(s) ==
    IF s = <<>> THEN <<>>
    ELSE (CASE Head(s) = "\"" -> <<"\\", "\"">>
            [] Head(s) = "\n" -> <<"\\", "n">>
            [] OTHER -> <<Head(s)>>) \o JsonEscape(Tail(s))

RECURSIVE JsonOk(_)
\* whether json.dumps accepts the value: bytes and arbitrary objects raise
\* TypeError, and so does a dict key that is not a str, number or None
JsonOk(v) ==
    CASE v.t \in {"str", "int", "bool", "None"} -> TRUE
      [] v.t = "list" -> \A i \in 1..Len(v.l) : JsonOk(v.l[i])
      [] v.t = "dict" ->
            \A i \in 1..(Len(v.l) \div 2) :
                /\ v.l[2 * i - 1].t \in {"str", "int", "bool", "None"}
                /\ JsonOk(v.l[2 * i])
      [] OTHER -> FALSE

Indent(level) == [i \in 1..(2 * level) |-> " "]

RECURSIVE JsonText(_, _)
\* json.dumps(v, indent=2) of a value json accepts, at nesting depth level
JsonText(v, level) ==
    LET KeyText(k) ==
            IF k.t = "str" THEN JsonEscape(k.s)
            ELSE IF k.t = "int" THEN IntText(k.n)
            ELSE IF k.t = "bool" THEN (IF k.n = 1 THEN <<"true">> ELSE <<"false">>)
            ELSE <<"null">>
        Item(i) == Indent(level + 1) \o JsonText(v.l[i], level + 1)
        Entry(i) == Indent(level + 1) \o <<"\"">> \o KeyText(v.l[2 * i - 1])
                    \o <<"\"", ":", " ">> \o JsonText(v.l[2 * i], level + 1)
    IN  CASE v.t = "str" -> <<"\"">> \o JsonEscape(v.s) \o <<"\"">>
          [] v.t = "int" -> IntText(v.n)
          [] v.t = "bool" -> IF v.n = 1 THEN <<"true">> ELSE <<"false">>
          [] v.t = "None" -> <<"null">>
          [] v.t = "list" ->
                IF v.l = <<>> THEN <<"[", "]">>
                ELSE <<"[", "\n">>
                     \o Join(<<",", "\n">>, [i \in 1..Len(v.l) |-> Item(i)])
                     \o <<"\n">> \o Indent(level) \o <<"]">>
          [] v.t = "dict" ->
                IF v.l = <<>> THEN <<"{", "}">>
                ELSE <<"{", "\n">>
                     \o Join(<<",", "\n">>, [i \in 1..(Len(v.l) \div 2) |-> Entry(i)])
                     \o <<"\n">> \o Indent(level) \o <<"}">>

\* str(v) of a value that is neither a dict nor a list
StrOf(v) ==
    CASE v.t = "str" -> v.s
      [] v.t = "int" -> IntText(v.n)
      [] v.t = "bool" -> IF v.n = 1 THEN <<"True">> ELSE <<"False">>
      [] v.t = "None" -> <<"None">>
      [] v.t = "bytes" -> <<"b", "'">> \o v.s \o <<"'">>
      [] OTHER -> <<"<object>">>

JsonTypeError == <<"Object of type set is not JSON serializable">>

\* the entry of function_results for one call; ok is FALSE when json.dumps
\* raises (msg is then the exception's message)
RenderResult(function, result) ==
    IF result.t \in {"dict", "list"} /\ ~JsonOk(result)
    THEN [ok |-> FALSE, text |-> <<>>, msg |-> JsonTypeError]
    ELSE [ok |-> TRUE,
          text |-> <<"Function ">> \o function \o <<" returned: ">>
                   \o (IF result.t \in {"dict", "list"} THEN JsonText(result, 0)
                       ELSE StrOf(result)),
          msg |-> <<>>]

(***************************************************************************)
(* Tools.  The tools are the callables handed to BaseAgent.__init__; what  *)
(* a call of one does is its own business, so an invocation is a choice    *)
(* among the outcomes the tool can have: it returns a value or it raises.  *)
(***************************************************************************)
Returns(v) == [raises |-> FALSE, v |-> v, msg |-> <<>>]
Raises(msg) == [raises |-> TRUE, v |-> PyNone, msg |-> msg]

ErrorDict(msg) == PyDict(<<PyStr(<<"error">>), PyStr(msg)>>)

\* two tools named f (the second one registered replaces the first), a tool
\* g without parameters, and a builtin that inspect.signature rejects
ToolF1 == [name |-> <<"f">>, id |-> "f1", params |-> <<<<"a">>>>,
           sig |-> TRUE, doc |-> <<"the first f">>]
ToolF2 == [name |-> <<"f">>, id |-> "f2", params |-> <<<<"a">>>>,
           sig |-> TRUE, doc |-> <<"the second f">>]
ToolG == [name |-> <<"g">>, id |-> "g", params |-> <<>>,
          sig |-> TRUE, doc |-> <<>>]
ToolMax == [name |-> <<"max">>, id |-> "max", params |-> <<>>,
            sig |-> FALSE, doc |-> <<"max(iterable)">>]

\* what the body of each tool can do once its arguments are bound: f2 returns
\* a str or raises; g returns a dict of data, an {"error": ...} dict of its
\* own (as the tools of travel.py do when their model call fails), or a dict
\* holding a value json cannot serialize
ToolBehaviour(tool) ==
    CASE tool.id = "f1" -> {Returns(PyStr(<<"r1">>))}
      [] tool.id = "f2" -> {Returns(PyStr(<<"r2">>)), Raises(<<"boom">>)}
      [] tool.id = "g" ->
            {Returns(PyDict(<<PyStr(<<"analysis">>), PyStr(<<"mild">>)>>)),
             Returns(ErrorDict(<<"Weather analysis failed: ", "down">>)),
             Returns(PyDict(<<PyStr(<<"seen">>), PyObject>>))}
      [] OTHER -> {Returns(PyNone)}

KeySet(kwargs) == {DictKeys(kwargs)[i].s : i \in 1..(Len(kwargs.l) \div 2)}

\* tool(**kwargs): Python raises TypeError unless the keywords are exactly
\* the tool's parameters (none of them has a default)
ToolOutcomes(tool, kwargs) ==
    IF KeySet(kwargs) = {tool.params[i] : i \in 1..Len(tool.params)}
    THEN ToolBehaviour(tool)
    ELSE {Raises(tool.name \o <<"() got an unexpected or missing argument">>)}

(***************************************************************************)
(* BaseAgent._execute_function                                             *)
(***************************************************************************)
\* a not-found value that does not say which name was looked up
NotFoundNameless(function_name) == ErrorDict(<<"Function not found">>)

\* the value returned for a name that is not registered: line 95
NotFoundResult(function_name) ==
    ErrorDict(<<"Function '">> \o function_name \o <<"' not found">>)

\* an executor that appends a record before it returns the not-found value
NotFoundCallsRecorded(calls, function_name, kwargs, now) ==
    Append(calls, [function |-> function_name, parameters |-> kwargs,
                   error |-> ErrorDict(<<"Function '">> \o function_name
                                       \o <<"' not found">>),
                   timestamp |-> now])

\* the call list after the return of line 95, which comes before any append
NotFoundCalls(calls, function_name, kwargs, now) == calls

\* a history that puts the newest record first
AppendCallFirst(calls, record) == <<record>> \o calls

\* a history that gets every record twice
AppendCallTwice(calls, record) == Append(Append(calls, record), record)

\* self.history["calls"].append(record): lines 99 and 108
AppendCall(calls, record) == Append(calls, record)

\* a record that files a returned {"error": ...} mapping under error
SuccessRecordFilesErrors(function_name, kwargs, result, now) ==
    IF result.t = "dict" /\ DictHas(result, PyStr(<<"error">>))
    THEN [function |-> function_name, parameters |-> kwargs, error |-> result,
          timestamp |-> now]
    ELSE [function |-> function_name, parameters |-> kwargs, result |-> result,
          timestamp |-> now]

\* the record of a call that returned: lines 99-104
SuccessRecord(function_name, kwargs, result, now) ==
    [function |-> function_name, parameters |-> kwargs, result |-> result,
     timestamp |-> now]

\* a record of a raised call that files the error value as a result too
ErrorRecordWithResult(function_name, kwargs, error_result, now) ==
    [function |-> function_name, parameters |-> kwargs, error |-> error_result,
     result |-> error_result, timestamp |-> now]

\* the record of a call that raised: lines 108-113
ErrorRecord(function_name, kwargs, error_result, now) ==
    [function |-> function_name, parameters |-> kwargs, error |-> error_result,
     timestamp |-> now]

\* an executor without the except branch: what the tool raises leaves it
HandleToolErrorPropagates(calls, now, function_name, kwargs, msg) ==
    [raised |-> TRUE, exc |-> msg, result |-> PyNone, calls |-> calls, now |-> now]

\* the except branch, lines 106-114: the exception is turned into a value
HandleToolError(calls, now, function_name, kwargs, msg) ==
    LET error_result ==
            ErrorDict(<<"Error executing ">> \o function_name \o <<": ">> \o msg)
    IN  [raised |-> FALSE, exc |-> <<>>, result |-> error_result,
         calls |-> AppendCall(calls, ErrorRecord(function_name, kwargs,
                                                 error_result, now)),
         now |-> now + 1]

\* The body of _execute_function on an agent whose registry is reg, whose
\* history["calls"] is calls, at clock reading now; outcome is what the tool
\* does when it is invoked.  Gives whether the body raised (and what), the
\* returned value, the new call list and the new clock reading.
ExecuteFunction(reg, calls, now, function_name, kwargs, outcome) ==
    IF ~HasTool(reg, function_name)
    THEN [raised |-> FALSE, exc |-> <<>>, result |-> NotFoundResult(function_name),
          calls |-> NotFoundCalls(calls, function_name, kwargs, now),
          now |-> now]
    ELSE IF ~outcome.raises
    THEN [raised |-> FALSE, exc |-> <<>>, result |-> outcome.v,
          calls |-> AppendCall(calls, SuccessRecord(function_name, kwargs,
                                                    outcome.v, now)),
          now |-> now + 1]
    ELSE HandleToolError(calls, now, function_name, kwargs, outcome.msg)

\* what the tool named function_name can do when it is invoked with kwargs;
\* for a name that is not registered no tool is invoked
OutcomesFor(reg, function_name, kwargs) ==
    IF HasTool(reg, function_name)
    THEN ToolOutcomes(GetTool(reg, function_name), kwargs)
    ELSE {Returns(PyNone)}

\* self._execute_function(call["function"], **call["parameters"]): Python
\* binds the keywords before the body runs and raises TypeError for a key
\* that is not a str and for a key that names the positional parameter
BindKeywords(parameters) ==
    IF \E i \in 1..(Len(parameters.l) \div 2) : DictKeys(parameters)[i].t # "str"
    THEN [ok |-> FALSE, msg |-> <<"keywords must be strings">>]
    ELSE IF <<"function_name">> \in KeySet(parameters)
    THEN [ok |-> FALSE,
          msg |-> <<"_execute_function() got multiple values for argument 'function_name'">>]
    ELSE [ok |-> TRUE, msg |-> <<>>]

(***************************************************************************)
(* BaseAgent._get_function_descriptions and the prompt of query            *)
(***************************************************************************)
SignatureError == <<"no signature found for builtin">>

DescriptionOf(tool) ==
    <<"Function: ">> \o tool.name \o <<"(">>
    \o Join(<<",", " ">>, [i \in 1..Len(tool.params) |->
                               tool.params[i] \o <<":", " ", "any">>])
    \o <<")", "\n", "Description: ">>
    \o (IF tool.doc = <<>> THEN <<"No description available">> ELSE tool.doc)

\* ok is FALSE when inspect.signature raises ValueError for one of the tools
FunctionDescriptions(reg) ==
    IF \E i \in 1..Len(reg) : ~reg[i].sig
    THEN [ok |-> FALSE, text |-> <<>>, msg |-> SignatureError]
    ELSE [ok |-> TRUE,
          text |-> Join(<<"\n", "\n">>, [i \in 1..Len(reg) |-> DescriptionOf(reg[i])]),
          msg |-> <<>>]

Instructions == "Instructions for function calling: ..."
FixedInstruction ==
    <<"Based on the function results above, provide a comprehensive response to the original request.">>
ExhaustionMessage == <<"Maximum iterations reached. Please try a simpler request.">>
ErrorPrefix == <<"Error generating response: ">>

\* the f-string of lines 122-134
FullPrompt(system_prompt, descriptions, conversation_history, current_message) ==
    <<"System: ">> \o system_prompt \o <<"\n", "\n", "Available Functions:", "\n">>
    \o descriptions \o <<"\n", "\n", Instructions, "\n", "\n">>
    \o conversation_history \o <<"\n", "\n", "User: ">> \o current_message

\* a fold-back that puts the newest exchange in front of the older ones
FoldBackPrepends(conversation_history, response_text, function_results) ==
    <<"\n", "Assistant: ">> \o response_text \o <<"\n">>
    \o <<"Function Results:", "\n">> \o Join(<<"\n">>, function_results) \o <<"\n">>
    \o conversation_history

\* the fold-back of lines 152-153
FoldBack(conversation_history, response_text, function_results) ==
    conversation_history \o <<"\n", "Assistant: ">> \o response_text \o <<"\n">>
    \o <<"Function Results:", "\n">> \o Join(<<"\n">>, function_results) \o <<"\n">>

\* a loop that runs once more than range(max_iterations)
InRangeInclusive(iteration, max_iterations) == iteration <= max_iterations

\* for iteration in range(max_iterations): the loop body runs for this value
InRange(iteration, max_iterations) == iteration < max_iterations

(***************************************************************************)
(* State                                                                   *)
(***************************************************************************)
\* the most model calls, over all queries, a run makes
MaxModelCalls == 2
\* the most direct calls of _execute_function (outside query) a run makes
MaxDirectCalls == 1

Agents == {"A", "B"}
\* the activations of query that can be in progress
Slots == {1, 2}

VARIABLES
    tools,      \* tools[a]: the registry self.tools of agent a
    history,    \* history[a]: self.history of agent a, [calls, responses]
    q,          \* q[s]: the frame of the query activation in slot s
    direct,     \* what the last direct call of _execute_function did
    clock,      \* the reading datetime.now() gives next
    nModel,     \* model calls made so far
    nDirect,    \* direct calls of _execute_function made so far
    parse       \* an argument text and what _parse_parameters made of it

vars == <<tools, history, q, direct, clock, nModel, nDirect, parse>>

SystemPromptOf(a) == <<"You are expert ", a>>

\* the tool lists agents are constructed with
ToolsPlain == <<ToolF1, ToolG, ToolF2>>
ToolsBuiltin == <<ToolG, ToolMax>>

\* what the model can answer
TextFinal == <<"It is sunny.">>
TextLower == <<LowerMarker, " ", "f", "(", "a", "=", "\"", "1", "\"", ")">>
TextUnknown == <<"Let me check. ", Marker, " ", "h", "(", "x", "=", "\"", "1", "\"", ")">>
TextCallF == <<Marker, " ", "f", "(", "a", "=", "\"", "1", "\"", ")">>
TextCallFG ==
    <<Marker, " ", "f", "(", "a", "=", "1", ")", "\n", Marker, "g", "(", ")">>
TextCollide == <<Marker, " ", "g", "(", "function_name", "=", "1", ")">>
\* markers for g, the unknown h and f, in this order
TextCallGHF ==
    <<Marker, " ", "g", "(", ")", "\n", Marker, " ", "h", "(", ")", "\n",
      Marker, " ", "f", "(", "a", "=", "1", ")">>
Responses == {TextFinal, TextLower, TextUnknown, TextCallF, TextCallFG, TextCollide}

ModelErrors == {<<"429 quota exceeded">>}
Prompts == {<<"plan my trip">>}

\* What a query has done so far is kept in the log of its frame, one event
\* per call out of query: a model call (kind "model": the prompt sent, the
\* text returned or the message raised), a call of _execute_function (kind
\* "tool": the call, whether the tool raised and with what message, whether
\* _execute_function let an exception out, what it returned) and a call
\* whose keywords could not be bound (kind "bind").  iteration counts from 1.
Event(kind, iteration, raised, propagated, prompt, text, function, parameters, result) ==
    [kind |-> kind, iteration |-> iteration, raised |-> raised,
     propagated |-> propagated, prompt |-> prompt, text |-> text,
     function |-> function, parameters |-> parameters, result |-> result]
ModelEvent(iteration, raised, prompt, text) ==
    Event("model", iteration, raised, raised, prompt, text, <<>>, EmptyDict, PyNone)
ToolEvent(iteration, function, parameters, outcome, r) ==
    Event("tool", iteration, outcome.raises, r.raised, <<>>, outcome.msg,
          function, parameters, r.result)
BindEvent(iteration, function, parameters) ==
    Event("bind", iteration, TRUE, TRUE, <<>>, <<>>, function, parameters, PyNone)

\* a frame of query: its locals, where it stands (pc), what it returned
\* (result) or raised (exc), and its log
IdleFrame ==
    [pc |-> "idle", agent |-> "A", prompt |-> <<>>, max_iterations |-> 0,
     iteration |-> 0, conversation_history |-> <<>>, current_message |-> <<>>,
     full_prompt |-> <<>>, response_text |-> <<>>, function_calls |-> <<>>,
     call_index |-> 0, function_results |-> <<>>, result |-> <<>>, exc |-> <<>>,
     log |-> <<>>]

NoDirect == [done |-> FALSE, agent |-> "A", function_name |-> <<>>,
             kwargs |-> EmptyDict, outcome |-> Returns(PyNone),
             raised |-> FALSE, exc |-> <<>>, result |-> PyNone]

\* no argument text is being parsed
NoParse == [pc |-> "idle", params_str |-> <<>>, params |-> EmptyDict,
            calls |-> <<>>]

Init ==
    /\ tools \in {[a \in Agents |-> Registry(l)] : l \in {ToolsPlain, ToolsBuiltin}}
    /\ history = [a \in Agents |-> [calls |-> <<>>, responses |-> <<>>]]
    /\ q = [s \in Slots |-> IdleFrame]
    /\ direct = NoDirect
    /\ clock = 0
    /\ nModel = 0
    /\ nDirect = 0
    /\ parse = NoParse

Running(s) == q[s].pc \in {"loop", "model", "exec"}

(***************************************************************************)
(* BaseAgent.query, one action per step between two calls out of it        *)
(***************************************************************************)
\* a query that starts with the transcript the last query on the slot left
StartQueryKeepsTranscript(s, a, prompt, n) ==
    /\ ~Running(s)
    /\ q' = [q EXCEPT ![s] = [IdleFrame EXCEPT !.pc = "loop", !.agent = a,
                                 !.prompt = prompt, !.max_iterations = n,
                                 !.current_message = prompt,
                                 !.conversation_history =
                                     q[s].conversation_history]]
    /\ UNCHANGED <<tools, parse, history, direct, clock, nModel, nDirect>>

\* a query whose iteration counter is an attribute of the agent: starting a
\* query sets the counter of every query in progress back to 0
StartQuerySharedCounter(s, a, prompt, n) ==
    /\ ~Running(s)
    /\ q' = [t \in Slots |->
                IF t = s
                THEN [IdleFrame EXCEPT !.pc = "loop", !.agent = a,
                                       !.prompt = prompt, !.max_iterations = n,
                                       !.current_message = prompt]
                ELSE [q[t] EXCEPT !.iteration = 0]]
    /\ UNCHANGED <<tools, parse, history, direct, clock, nModel, nDirect>>

\* query(prompt, max_iterations) is called on agent a: lines 116-119
StartQuery(s, a, prompt, n) ==
    /\ ~Running(s)
    /\ q' = [q EXCEPT ![s] = [IdleFrame EXCEPT !.pc = "loop", !.agent = a,
                                 !.prompt = prompt, !.max_iterations = n,
                                 !.current_message = prompt]]
    /\ UNCHANGED <<tools, parse, history, direct, clock, nModel, nDirect>>

\* the return of query: the frame keeps what it returned
ReturnFrame(f, text) == [f EXCEPT !.pc = "returned", !.result = text]

\* an except branch that goes on to the next iteration
HandleQueryErrorRetry(f, msg) == [f EXCEPT !.pc = "loop", !.iteration = @ + 1]

\* the except branch of query, lines 160-161
HandleQueryError(f, msg) == ReturnFrame(f, ErrorPrefix \o msg)

\* an iteration begins (line 121) and the prompt is built (lines 122-134);
\* _get_function_descriptions is called outside the try block, so what it
\* raises leaves query
BuildPrompt(s) ==
    LET f == q[s]
        d == FunctionDescriptions(tools[f.agent])
    IN  /\ f.pc = "loop"
        /\ InRange(f.iteration, f.max_iterations)
        /\ q' = [q EXCEPT ![s] =
                   IF d.ok
                   THEN [f EXCEPT !.pc = "model",
                                  !.full_prompt =
                                      FullPrompt(SystemPromptOf(f.agent), d.text,
                                                 f.conversation_history,
                                                 f.current_message)]
                   ELSE [f EXCEPT !.pc = "raised", !.exc = d.msg]]
        /\ UNCHANGED <<tools, parse, history, direct, clock, nModel, nDirect>>

\* range(max_iterations) is used up: line 163
Exhausted(s) ==
    LET f == q[s]
    IN  /\ f.pc = "loop"
        /\ ~InRange(f.iteration, f.max_iterations)
        /\ q' = [q EXCEPT ![s] = ReturnFrame(f, ExhaustionMessage)]
        /\ UNCHANGED <<tools, parse, history, direct, clock, nModel, nDirect>>

\* a query that files a response in the history when it is the final answer
\* only
ModelReturnsRecordsFinalOnly(s, text) ==
    LET f == q[s]
        function_calls == ParseFunctionCalls(tools[f.agent], text)
        g == [f EXCEPT !.response_text = text,
                       !.log = Append(@, ModelEvent(f.iteration + 1, FALSE,
                                                    f.full_prompt, text)),
                       !.function_calls = function_calls]
    IN  /\ f.pc = "model"
        /\ nModel < MaxModelCalls
        /\ nModel' = nModel + 1
        /\ history' = IF function_calls # <<>> THEN history
                      ELSE [history EXCEPT ![f.agent].responses = Append(@, text)]
        /\ q' = [q EXCEPT ![s] =
                   IF function_calls # <<>>
                   THEN [g EXCEPT !.pc = "exec", !.call_index = 1,
                                  !.function_results = <<>>]
                   ELSE ReturnFrame(g, text)]
        /\ UNCHANGED <<tools, parse, direct, clock, nDirect>>

\* generate_content returns text: lines 137-146 and 158
ModelReturns(s, text) ==
    LET f == q[s]
        function_calls == ParseFunctionCalls(tools[f.agent], text)
        g == [f EXCEPT !.response_text = text,
                       !.log = Append(@, ModelEvent(f.iteration + 1, FALSE,
                                                    f.full_prompt, text)),
                       !.function_calls = function_calls]
    IN  /\ f.pc = "model"
        /\ nModel < MaxModelCalls
        /\ nModel' = nModel + 1
        /\ history' = [history EXCEPT ![f.agent].responses = Append(@, text)]
        /\ q' = [q EXCEPT ![s] =
                   IF function_calls # <<>>
                   THEN [g EXCEPT !.pc = "exec", !.call_index = 1,
                                  !.function_results = <<>>]
                   ELSE ReturnFrame(g, text)]
        /\ UNCHANGED <<tools, parse, direct, clock, nDirect>>

\* generate_content (or response.text) raises: lines 137 and 160-161
ModelRaises(s, msg) ==
    LET f == q[s]
    IN  /\ f.pc = "model"
        /\ nModel < MaxModelCalls
        /\ nModel' = nModel + 1
        /\ q' = [q EXCEPT ![s] =
                   HandleQueryError(
                       [f EXCEPT !.log = Append(@, ModelEvent(f.iteration + 1, TRUE,
                                                              f.full_prompt, msg))],
                       msg)]
        /\ UNCHANGED <<tools, parse, history, direct, clock, nDirect>>

\* line 148 for a call whose keywords cannot be bound: the TypeError is
\* caught at line 160
BindingFails(s) ==
    LET f == q[s]
        call == f.function_calls[f.call_index]
        b == BindKeywords(call.parameters)
    IN  /\ f.pc = "exec"
        /\ ~b.ok
        /\ q' = [q EXCEPT ![s] =
                   HandleQueryError(
                       [f EXCEPT !.log = Append(@, BindEvent(f.iteration + 1,
                                                             call.function,
                                                             call.parameters))],
                       b.msg)]
        /\ UNCHANGED <<tools, parse, history, direct, clock, nModel, nDirect>>

\* a loop over the calls that goes on to the next iteration after one call
AfterCallSkipsRest(f, r, text) ==
    LET function_results == Append(f.function_results, text.text)
    IN  IF r.raised THEN HandleQueryError(f, r.exc)
        ELSE IF ~text.ok THEN HandleQueryError(f, text.msg)
        ELSE [f EXCEPT !.pc = "loop",
                       !.function_results = function_results,
                       !.conversation_history =
                           FoldBack(@, f.response_text, function_results),
                       !.current_message = FixedInstruction,
                       !.iteration = @ + 1]

\* a fold-back that leaves the current message as it is
AfterCallKeepsMessage(f, r, text) ==
    LET function_results == Append(f.function_results, text.text)
    IN  IF r.raised THEN HandleQueryError(f, r.exc)
        ELSE IF ~text.ok THEN HandleQueryError(f, text.msg)
        ELSE IF f.call_index < Len(f.function_calls)
        THEN [f EXCEPT !.call_index = @ + 1,
                       !.function_results = function_results]
        ELSE [f EXCEPT !.pc = "loop",
                       !.function_results = function_results,
                       !.conversation_history =
                           FoldBack(@, f.response_text, function_results),
                       !.iteration = @ + 1]

\* a loop that goes on when a result cannot be rendered, with an empty text
\* in its place
AfterCallSkipsRenderError(f, r, text) ==
    LET function_results == Append(f.function_results, text.text)
    IN  IF r.raised THEN HandleQueryError(f, r.exc)
        ELSE IF f.call_index < Len(f.function_calls)
        THEN [f EXCEPT !.call_index = @ + 1,
                       !.function_results = function_results]
        ELSE [f EXCEPT !.pc = "loop",
                       !.function_results = function_results,
                       !.conversation_history =
                           FoldBack(@, f.response_text, function_results),
                       !.current_message = FixedInstruction,
                       !.iteration = @ + 1]

\* the frame after the call at call_index has been executed with outcome r
\* and rendered as text: lines 149-156, or 160-161 when something raised
AfterCall(f, r, text) ==
    LET function_results == Append(f.function_results, text.text)
    IN  IF r.raised THEN HandleQueryError(f, r.exc)
        ELSE IF ~text.ok THEN HandleQueryError(f, text.msg)
        ELSE IF f.call_index < Len(f.function_calls)
        THEN [f EXCEPT !.call_index = @ + 1,
                       !.function_results = function_results]
        ELSE [f EXCEPT !.pc = "loop",
                       !.function_results = function_results,
                       !.conversation_history =
                           FoldBack(@, f.response_text, function_results),
                       !.current_message = FixedInstruction,
                       !.iteration = @ + 1]

\* the frame with the execution of call logged
Logged(f, call, outcome, r) ==
    [f EXCEPT !.log = Append(@, ToolEvent(f.iteration + 1, call.function,
                                          call.parameters, outcome, r))]

\* an agent whose history list is a class attribute: one list for all agents
RecordCallsShared(h, a, calls) == [b \in Agents |-> [h[b] EXCEPT !.calls = calls]]

\* self.history["calls"] after _execute_function: self.history is a dict of
\* the instance (line 44), so the list of agent a alone is touched
RecordCalls(h, a, calls) == [h EXCEPT ![a].calls = calls]

\* an executor that takes a tool that raised out of the registry
ExecuteCallDropsFailedTool(s) ==
    LET f == q[s]
        call == f.function_calls[f.call_index]
    IN  /\ f.pc = "exec"
        /\ BindKeywords(call.parameters).ok
        /\ \E outcome \in OutcomesFor(tools[f.agent], call.function,
                                     call.parameters) :
             LET r == ExecuteFunction(tools[f.agent], history[f.agent].calls,
                                      clock, call.function, call.parameters,
                                      outcome)
                 text == RenderResult(call.function, r.result)
             IN  /\ history' = RecordCalls(history, f.agent, r.calls)
                 /\ clock' = r.now
                 /\ tools' = IF outcome.raises
                             THEN [tools EXCEPT ![f.agent] =
                                      SelectSeq(@, LAMBDA t : t.name # call.function)]
                             ELSE tools
                 /\ q' = [q EXCEPT ![s] =
                            AfterCall(Logged(f, call, outcome, r), r, text)]
        /\ UNCHANGED <<parse, direct, nModel, nDirect>>

\* lines 148-149 for the next call of the response, and after the last call
\* lines 152-156; the tool does one of the things it can do
ExecuteCall(s) ==
    LET f == q[s]
        call == f.function_calls[f.call_index]
    IN  /\ f.pc = "exec"
        /\ BindKeywords(call.parameters).ok
        /\ \E outcome \in OutcomesFor(tools[f.agent], call.function,
                                     call.parameters) :
             LET r == ExecuteFunction(tools[f.agent], history[f.agent].calls,
                                      clock, call.function, call.parameters,
                                      outcome)
                 text == RenderResult(call.function, r.result)
             IN  /\ history' = RecordCalls(history, f.agent, r.calls)
                 /\ clock' = r.now
                 /\ q' = [q EXCEPT ![s] =
                            AfterCall(Logged(f, call, outcome, r), r, text)]
        /\ UNCHANGED <<tools, parse, direct, nModel, nDirect>>

(***************************************************************************)
(* _execute_function called directly, outside query                        *)
(***************************************************************************)
\* a registered name and one that is not
DirectNames == {<<"f">>, <<"h">>}
DirectKwargs == {PyDict(<<PyStr(<<"a">>), PyStr(<<"1">>)>>)}

DirectExecute(a, function_name, kwargs) ==
    /\ nDirect < MaxDirectCalls
    /\ nDirect' = nDirect + 1
    /\ \E outcome \in OutcomesFor(tools[a], function_name, kwargs) :
         LET r == ExecuteFunction(tools[a], history[a].calls, clock,
                                  function_name, kwargs, outcome)
         IN  /\ history' = RecordCalls(history, a, r.calls)
             /\ clock' = r.now
             /\ direct' = [done |-> TRUE, agent |-> a,
                           function_name |-> function_name, kwargs |-> kwargs,
                           outcome |-> outcome, raised |-> r.raised,
                           exc |-> r.exc, result |-> r.result]
    /\ UNCHANGED <<tools, parse, q, nModel>>

(***************************************************************************)
(* The sequential program: one caller, one agent, one query at a time,     *)
(* direct calls of the executor between queries.  A query is started with  *)
(* a max_iterations the model calls left to the run can still use up.      *)
(***************************************************************************)
Next ==
    \/ \E prompt \in Prompts, n \in 0..(MaxModelCalls - nModel) :
           StartQuery(1, "A", prompt, n)
    \/ BuildPrompt(1)
    \/ Exhausted(1)
    \/ \E text \in Responses : ModelReturns(1, text)
    \/ \E msg \in ModelErrors : ModelRaises(1, msg)
    \/ BindingFails(1)
    \/ ExecuteCall(1)
    \/ \E function_name \in DirectNames, kwargs \in DirectKwargs :
           ~Running(1) /\ DirectExecute("A", function_name, kwargs)

Spec == Init /\ [][Next]_vars

(***************************************************************************)
(* _parse_parameters and _parse_function_calls on their own: an argument   *)
(* text is drawn and the parser is applied to it                           *)
(***************************************************************************)
\* the most pieces an argument text is put together from
MaxArgPieces == 3

\* the pieces argument texts are put together from
ArgPieces ==
    {<<"a", "=">>, <<"b", "=">>, <<"1">>, <<"\"", "x", "\"">>, <<"'", "y", "'">>,
     <<"[">>, <<"]">>, <<",">>, <<" ">>, <<"None">>, <<"True">>, <<"\"">>}

\* a="1", b=["x","y"]
ArgWellFormed ==
    <<"a", "=", "\"", "1", "\"", ",", " ", "b", "=", "[", "\"", "x", "\"", ",",
      "\"", "y", "\"", "]">>
\* a=1, b=
ArgTrailingEmpty == <<"a", "=", "1", ",", " ", "b", "=">>
\* b=["x","y"], c=
ArgListThenEmpty ==
    <<"b", "=", "[", "\"", "x", "\"", ",", "\"", "y", "\"", "]", ",", " ", "c", "=">>

ArgTexts ==
    {ArgWellFormed, ArgTrailingEmpty, ArgListThenEmpty}
    \cup {Concat(ps) : ps \in UNION {[1..k -> ArgPieces] : k \in 0..MaxArgPieces}}

\* the response that holds one marker, naming f, with the argument text
MarkerText(params_str) == <<Marker, " ", "f", "(">> \o params_str \o <<")">>

InitParser ==
    /\ tools = [a \in Agents |-> Registry(ToolsPlain)]
    /\ history = [a \in Agents |-> [calls |-> <<>>, responses |-> <<>>]]
    /\ q = [s \in Slots |-> IdleFrame]
    /\ direct = NoDirect
    /\ clock = 0
    /\ nModel = 0
    /\ nDirect = 0
    /\ parse \in {[NoParse EXCEPT !.pc = "input", !.params_str = t] : t \in ArgTexts}

\* self._parse_parameters(params_str), and self._parse_function_calls(text)
\* for the response that holds the argument text in a marker
ParseText ==
    /\ parse.pc = "input"
    /\ parse' = [parse EXCEPT
                   !.pc = "parsed",
                   !.params = ParseParameters(parse.params_str),
                   !.calls = ParseFunctionCalls(tools["A"],
                                                MarkerText(parse.params_str))]
    /\ UNCHANGED <<tools, history, q, direct, clock, nModel, nDirect>>

NextParser == ParseText

SpecParser == InitParser /\ [][NextParser]_vars

(***************************************************************************)
(* Two agents, each with a query of its own in progress, their steps       *)
(* interleaved in any order                                                *)
(***************************************************************************)
\* the agent the query of slot s runs on
AgentOf(s) == IF s = 1 THEN "A" ELSE "B"

ResponsesOfAgents == {TextFinal, TextCallF, TextCallFG}

NextAgents ==
    \/ \E s \in Slots, prompt \in Prompts, n \in 0..(MaxModelCalls - nModel) :
           StartQuery(s, AgentOf(s), prompt, n)
    \/ \E s \in Slots : BuildPrompt(s)
    \/ \E s \in Slots : Exhausted(s)
    \/ \E s \in Slots, text \in ResponsesOfAgents : ModelReturns(s, text)
    \/ \E s \in Slots, msg \in ModelErrors : ModelRaises(s, msg)
    \/ \E s \in Slots : ExecuteCall(s)

SpecAgents == Init /\ [][NextAgents]_vars

(***************************************************************************)
(* One agent whose model answers with several markers in one response      *)
(***************************************************************************)
ResponsesOfCalls == {TextFinal, TextCallFG, TextCallGHF}

NextCalls ==
    \/ \E prompt \in Prompts, n \in 0..(MaxModelCalls - nModel) :
           StartQuery(1, "A", prompt, n)
    \/ BuildPrompt(1)
    \/ Exhausted(1)
    \/ \E text \in ResponsesOfCalls : ModelReturns(1, text)
    \/ \E msg \in ModelErrors : ModelRaises(1, msg)
    \/ ExecuteCall(1)

SpecCalls == Init /\ [][NextCalls]_vars

(***************************************************************************)
(* One agent with two queries in progress at once (query called on the     *)
(* same instance from two threads), their steps interleaved in any order   *)
(***************************************************************************)
PromptsOfShared == {<<"plan my trip">>, <<"what to pack">>}
ResponsesOfShared == {TextFinal, TextCallF}

NextShared ==
    \/ \E s \in Slots, prompt \in PromptsOfShared, n \in 0..(MaxModelCalls - nModel) :
           StartQuery(s, "A", prompt, n)
    \/ \E s \in Slots : BuildPrompt(s)
    \/ \E s \in Slots : Exhausted(s)
    \/ \E s \in Slots, text \in ResponsesOfShared : ModelReturns(s, text)
    \/ \E s \in Slots, msg \in ModelErrors : ModelRaises(s, msg)
    \/ \E s \in Slots : ExecuteCall(s)

SpecShared == Init /\ [][NextShared]_vars

(***************************************************************************)
(* One agent whose caller also passes max_iterations of 0 and below        *)
(***************************************************************************)
\* the least max_iterations a query is called with
MinIterations == -1
ResponsesOfBudget == {TextFinal, TextCallF}

NextBudget ==
    \/ \E prompt \in Prompts, n \in MinIterations..(MaxModelCalls - nModel) :
           StartQuery(1, "A", prompt, n)
    \/ BuildPrompt(1)
    \/ Exhausted(1)
    \/ \E text \in ResponsesOfBudget : ModelReturns(1, text)
    \/ \E msg \in ModelErrors : ModelRaises(1, msg)
    \/ ExecuteCall(1)

SpecBudget == Init /\ [][NextBudget]_vars

(***************************************************************************)
(* The parser on argument texts that hold parentheses                      *)
(***************************************************************************)
\* the pieces these argument texts are put together from
CapturePieces ==
    {<<"a", "=">>, <<"b", "=">>, <<"1">>, <<"\"">>, <<"x">>, <<")">>, <<"(">>,
     <<",">>, <<"[">>, <<"]">>}

\* a="x)", b=1
ArgParenInString == <<"a", "=", "\"", "x", ")", "\"", ",", " ", "b", "=", "1">>

CaptureTexts ==
    {ArgParenInString}
    \cup {Concat(ps) : ps \in UNION {[1..k -> CapturePieces] : k \in 0..MaxArgPieces}}

InitCapture ==
    /\ tools = [a \in Agents |-> Registry(ToolsPlain)]
    /\ history = [a \in Agents |-> [calls |-> <<>>, responses |-> <<>>]]
    /\ q = [s \in Slots |-> IdleFrame]
    /\ direct = NoDirect
    /\ clock = 0
    /\ nModel = 0
    /\ nDirect = 0
    /\ parse \in {[NoParse EXCEPT !.pc = "input", !.params_str = t] :
                     t \in CaptureTexts}

SpecCapture == InitCapture /\ [][NextParser]_vars

(***************************************************************************)
(* The parser on argument texts whose values are scalars and bracketed     *)
(* expressions, well-formed as a whole or not                              *)
(***************************************************************************)
\* the pieces these argument texts are put together from
TierPieces ==
    {<<"a", "=">>, <<"b", "=">>, <<"1">>, <<"0">>, <<"True">>, <<"[">>, <<"]">>,
     <<",">>, <<"=">>}

\* a=1
ArgScalarAlone == <<"a", "=", "1">>
\* a=[1][0], b=
ArgSubscript == <<"a", "=", "[", "1", "]", "[", "0", "]", ",", " ", "b", "=">>
\* a=[]==[], b=
ArgComparison == <<"a", "=", "[", "]", "=", "=", "[", "]", ",", " ", "b", "=">>

TierTexts ==
    {ArgScalarAlone, ArgTrailingEmpty, ArgSubscript, ArgComparison}
    \cup {Concat(ps) : ps \in UNION {[1..k -> TierPieces] : k \in 0..MaxArgPieces}}

InitTiers ==
    /\ tools = [a \in Agents |-> Registry(ToolsPlain)]
    /\ history = [a \in Agents |-> [calls |-> <<>>, responses |-> <<>>]]
    /\ q = [s \in Slots |-> IdleFrame]
    /\ direct = NoDirect
    /\ clock = 0
    /\ nModel = 0
    /\ nDirect = 0
    /\ parse \in {[NoParse EXCEPT !.pc = "input", !.params_str = t] :
                     t \in TierTexts}

SpecTiers == InitTiers /\ [][NextParser]_vars

\* ---- properties ----
(***************************************************************************)
(* Properties of query and _execute_function                               *)
(***************************************************************************)
Last(seq) == seq[Len(seq)]
EventsOf(log, kind) == SelectSeq(log, LAMBDA e : e.kind = kind)
EventsIn(log, kind, k) == SelectSeq(log, LAMBDA e : e.kind = kind /\ e.iteration = k)

\* the last thing the query of frame f did was to receive a text from the model
Received(f) ==
    f.log # <<>> /\ Last(f.log).kind = "model" /\ ~Last(f.log).raised

\* text holds markers and every one of them names a function reg does not hold
AllUnknown(reg, text) ==
    /\ FindAll(text) # <<>>
    /\ \A i \in 1..Len(FindAll(text)) : ~HasTool(reg, FindAll(text)[i].func_name)

\* C1: a response without the CALL_FUNCTION: marker parses to no call, and
\* the query that received it has returned exactly that text; the response
\* is the last event of the query, so no model call and no tool execution
\* follows it.
C1_NoMarkerIsFinal ==
    \A s \in Slots :
        LET f == q[s]
        IN  (Received(f) /\ ~Contains(Last(f.log).text, Marker)) =>
                /\ ParseFunctionCalls(tools[f.agent], Last(f.log).text) = <<>>
                /\ f.pc = "returned"
                /\ f.result = Last(f.log).text

\* a query has returned a response that holds the marker in lower case only
C1_Witness ==
    \E s \in Slots :
        /\ Received(q[s])
        /\ Last(q[s].log).text = TextLower
        /\ q[s].pc = "returned"
        /\ q[s].result = TextLower

\* C2: when a query receives a response whose markers all name functions
\* that are not registered, the parser gives no call, the query returns the
\* response text as it is, no tool is executed and the call history stays
\* as it was.
C2_UnknownOnlyIsFinal ==
    [][\A s \in Slots :
          LET f == q'[s]
          IN  (q'[s] # q[s] /\ Received(f)
               /\ AllUnknown(tools[f.agent], Last(f.log).text)) =>
                  /\ ParseFunctionCalls(tools[f.agent], Last(f.log).text) = <<>>
                  /\ f.pc = "returned"
                  /\ f.result = Last(f.log).text
                  /\ EventsOf(f.log, "tool") = EventsOf(q[s].log, "tool")
                  /\ history'[f.agent].calls = history[f.agent].calls]_vars

\* a query has returned a response whose only marker names the unknown h
C2_Witness ==
    \E s \in Slots :
        /\ Received(q[s])
        /\ AllUnknown(tools[q[s].agent], Last(q[s].log).text)
        /\ q[s].pc = "returned"
        /\ q[s].result = TextUnknown

\* frame f's model calls all returned a text with a recognized call in it
AllRecognized(f) ==
    \A i \in 1..Len(f.log) :
        f.log[i].kind = "model" =>
            /\ ~f.log[i].raised
            /\ ParseFunctionCalls(tools[f.agent], f.log[i].text) # <<>>

\* no call of frame f's query failed in a way that ends the query: every
\* call's keywords were bound and every result could be rendered
NoFatalCall(f) ==
    \A i \in 1..Len(f.log) :
        /\ f.log[i].kind # "bind"
        /\ f.log[i].kind = "tool" =>
               /\ ~f.log[i].propagated
               /\ RenderResult(f.log[i].function, f.log[i].result).ok

\* the calls of the response of iteration k were all executed
ExecutedAll(f, k) ==
    Len(EventsIn(f.log, "tool", k)) =
        Len(ParseFunctionCalls(tools[f.agent], EventsIn(f.log, "model", k)[1].text))

\* how many times text holds the heading a fold-back writes
FoldBacks(text) ==
    Cardinality({i \in 1..Len(text) : text[i] = "Function Results:"})

\* C3: a query with max_iterations = N never makes more than N model calls;
\* when N >= 1, every response held a recognized call and no call failed
\* fatally, the query that has returned made exactly N model calls, executed
\* the calls of every response and folded the results back N times (after
\* the last response too), and returned the exhaustion message.
C3_ExactlyNModelCalls ==
    \A s \in Slots :
        LET f == q[s]
        IN  /\ Len(EventsOf(f.log, "model")) <= f.max_iterations
            /\ (f.pc = "returned" /\ f.max_iterations >= 1
                /\ AllRecognized(f) /\ NoFatalCall(f)) =>
                   /\ Len(EventsOf(f.log, "model")) = f.max_iterations
                   /\ \A k \in 1..f.max_iterations : ExecutedAll(f, k)
                   /\ f.iteration = f.max_iterations
                   /\ FoldBacks(f.conversation_history) = f.max_iterations
                   /\ Last(f.log).kind = "tool"
                   /\ f.result = ExhaustionMessage

\* a query with max_iterations = 2 has used both iterations up
C3_Witness ==
    \E s \in Slots :
        /\ q[s].pc = "returned"
        /\ q[s].max_iterations = 2
        /\ AllRecognized(q[s]) /\ NoFatalCall(q[s])
        /\ Len(EventsOf(q[s].log, "model")) = 2
        /\ q[s].result = ExhaustionMessage

\* C4: a model call that raised is the last thing its query did (no model
\* call and no tool execution follows it), and the query has returned the
\* prefix 'Error generating response: ' followed by the exception's message.
C4_ModelFailureEndsQuery ==
    \A s \in Slots :
        LET f == q[s]
        IN  \A i \in 1..Len(f.log) :
                (f.log[i].kind = "model" /\ f.log[i].raised) =>
                    /\ i = Len(f.log)
                    /\ f.pc = "returned"
                    /\ IsPrefix(ErrorPrefix, f.result)
                    /\ f.result = ErrorPrefix \o f.log[i].text

\* the model raised in the second iteration of a query, after a tool ran
C4_Witness ==
    \E s \in Slots :
        /\ q[s].log # <<>>
        /\ Last(q[s].log).kind = "model" /\ Last(q[s].log).raised
        /\ Last(q[s].log).iteration = 2
        /\ EventsOf(q[s].log, "tool") # <<>>
        /\ q[s].pc = "returned"

\* result is a dict whose only key is "error"
IsErrorResult(result) ==
    result.t = "dict" /\ DictKeys(result) = <<PyStr(<<"error">>)>>
    /\ DictValues(result)[1].t = "str"

\* what _execute_function has to have done with a tool that raised msg: it
\* let nothing out, returned an error value that names the tool and carries
\* the message, and took the call list from before to after by one record
\* that holds the error and no result
ToolErrorHandled(function_name, msg, propagated, result, before, after) ==
    /\ ~propagated
    /\ IsErrorResult(result)
    /\ IsSubstring(function_name, DictValues(result)[1].s)
    /\ IsSubstring(msg, DictValues(result)[1].s)
    /\ Len(after) = Len(before) + 1
    /\ SubSeq(after, 1, Len(before)) = before
    /\ "error" \in DOMAIN Last(after)
    /\ "result" \notin DOMAIN Last(after)
    /\ Last(after).error = result
    /\ Last(after).function = function_name

\* C5: every call of _execute_function (direct or from query) on a
\* registered tool that raises lets no exception out, returns an error value
\* whose message holds the tool's name and the exception's message, and
\* appends exactly one record, with an error field and without a result field.
C5_ToolErrorIsCaptured ==
    [][/\ (nDirect' = nDirect + 1
           /\ HasTool(tools[direct'.agent], direct'.function_name)
           /\ direct'.outcome.raises) =>
              ToolErrorHandled(direct'.function_name, direct'.outcome.msg,
                               direct'.raised, direct'.result,
                               history[direct'.agent].calls,
                               history'[direct'.agent].calls)
       /\ \A s \in Slots :
              (Len(q'[s].log) = Len(q[s].log) + 1
               /\ Last(q'[s].log).kind = "tool"
               /\ Last(q'[s].log).raised) =>
                  ToolErrorHandled(Last(q'[s].log).function, Last(q'[s].log).text,
                                   Last(q'[s].log).propagated,
                                   Last(q'[s].log).result,
                                   history[q[s].agent].calls,
                                   history'[q[s].agent].calls)]_vars

\* a direct call of the registered f has raised "boom"
C5_Witness ==
    /\ direct.done
    /\ HasTool(tools[direct.agent], direct.function_name)
    /\ direct.outcome.raises
    /\ direct.outcome.msg = <<"boom">>
    /\ Len(history[direct.agent].calls) >= 1

\* C6: a direct call of _execute_function with a name that is not registered
\* lets no exception out and returns a dict whose only key is "error" and
\* whose message holds the name.
C6_UnknownToolIsAnErrorValue ==
    (direct.done /\ ~HasTool(tools[direct.agent], direct.function_name)) =>
        /\ ~direct.raised
        /\ IsErrorResult(direct.result)
        /\ IsSubstring(direct.function_name, DictValues(direct.result)[1].s)

\* _execute_function has been called with the unregistered name h
C6_Witness ==
    /\ direct.done
    /\ direct.function_name = <<"h">>
    /\ ~HasTool(tools[direct.agent], direct.function_name)
    /\ IsErrorResult(direct.result)

\* C7 (as the source has it): a call of _execute_function with a name that
\* is not registered leaves the history as it was; no record is appended.
C7_UnknownToolNotRecorded ==
    [][(nDirect' = nDirect + 1
        /\ ~HasTool(tools[direct'.agent], direct'.function_name)) =>
           history' = history]_vars

\* C7 as stated: a call of _execute_function with a name that is not
\* registered appends a call record to the history.
C7_UnknownToolRecorded ==
    [][(nDirect' = nDirect + 1
        /\ ~HasTool(tools[direct'.agent], direct'.function_name)) =>
           Len(history'[direct'.agent].calls)
               = Len(history[direct'.agent].calls) + 1]_vars

\* the unregistered h has been called on an agent whose call list is empty
C7_Witness ==
    /\ direct.done
    /\ ~HasTool(tools[direct.agent], direct.function_name)
    /\ history[direct.agent].calls = <<>>
    /\ direct.result = ErrorDict(<<"Function '", "h", "' not found">>)

\* C8 as stated: no query raises to its caller.
C8_QueryNeverRaises == \A s \in Slots : q[s].pc # "raised"

\* in iteration k of frame f's query no keyword binding failed and every
\* result that _execute_function returned could be rendered
NoFatalIn(f, k) ==
    /\ EventsIn(f.log, "bind", k) = <<>>
    /\ \A i \in 1..Len(f.log) :
           (f.log[i].kind = "tool" /\ f.log[i].iteration = k) =>
               RenderResult(f.log[i].function, f.log[i].result).ok

C10_CallHistoryAppendOnly ==
    [][\A a \in Agents : IsPrefix(history[a].calls, history'[a].calls)]_vars

\* the call list holds a record from an earlier query and one from the
\* query in progress
C10_Witness ==
    \E s \in Slots :
        /\ Len(history[q[s].agent].calls) >= 2
        /\ Len(EventsOf(q[s].log, "tool")) = 1
        /\ nDirect = 0


\* the step took the query of slot s through one call of _execute_function
Executed(s) ==
    /\ Len(q'[s].log) = Len(q[s].log) + 1
    /\ Last(q'[s].log).kind = "tool"

\* C11: with queries of agent A and agent B interleaved in any order, a step
\* of a query leaves the history of the other agent as it was, and changes
\* the call list of its own agent only by appending the record of the call
\* it has just executed.  So the call list of an agent holds the records of
\* the calls of its own queries, in the order they were executed, whatever
\* the other agent's queries do.  (The timestamp of a record is the reading
\* of the clock and is not compared.)
C11_AgentHistoriesIndependent ==
    [][\A s \in Slots :
          q'[s] # q[s] =>
              /\ \A b \in Agents \ {q'[s].agent} : history'[b] = history[b]
              /\ IF Executed(s)
                 THEN /\ Len(history'[q[s].agent].calls)
                             = Len(history[q[s].agent].calls) + 1
                      /\ IsPrefix(history[q[s].agent].calls,
                                  history'[q[s].agent].calls)
                      /\ Last(history'[q[s].agent].calls).function
                             = Last(q'[s].log).function
                      /\ Last(history'[q[s].agent].calls).parameters
                             = Last(q'[s].log).parameters
                 ELSE history'[q'[s].agent].calls = history[q'[s].agent].calls]_vars

\* agent B has executed a call between two calls of one response of agent A
C11_Witness ==
    /\ Len(history["A"].calls) = 2
    /\ Len(history["B"].calls) = 1
    /\ history["A"].calls[1].timestamp < history["B"].calls[1].timestamp
    /\ history["B"].calls[1].timestamp < history["A"].calls[2].timestamp
    /\ history["A"].calls[1].function = <<"f">>
    /\ history["A"].calls[2].function = <<"g">>

\* the query of frame f has ended in one of the three outcomes: the final
\* text of the model, an error string, or the exhaustion message
TerminalOutcome(f) ==
    /\ f.pc = "returned"
    /\ \/ Received(f) /\ f.result = Last(f.log).text
       \/ IsPrefix(ErrorPrefix, f.result)
       \/ f.result = ExhaustionMessage

\* C12 as stated: a query that has been started and is no longer in its
\* loop has ended in a terminal outcome, after at most max_iterations model
\* calls.
C12_QueryEndsInOutcome ==
    \A s \in Slots :
        (q[s].pc # "idle" /\ ~Running(s)) =>
            /\ TerminalOutcome(q[s])
            /\ Len(EventsOf(q[s].log, "model")) <= q[s].max_iterations

\* the mapping {a: "1", b: ["x", "y"]}
WellFormedParams ==
    PyDict(<<PyStr(<<"a">>), PyStr(<<"1">>),
             PyStr(<<"b">>), PyList(<<PyStr(<<"x">>), PyStr(<<"y">>)>>)>>)

\* C13: for the argument text a="1", b=["x","y"] the primary parse
\* succeeds and _parse_parameters gives exactly {a: "1", b: ["x", "y"]}, and
\* so does _parse_function_calls for a marker that names the registered f
\* with this argument text.
C13_WellFormedArguments ==
    (parse.pc = "parsed" /\ parse.params_str = ArgWellFormed) =>
        /\ EvalDict(parse.params_str).ok
        /\ parse.params = WellFormedParams
        /\ parse.calls = <<[function |-> <<"f">>, parameters |-> WellFormedParams]>>

\* the text a="1", b=["x","y"] has been parsed
C13_Witness ==
    /\ parse.pc = "parsed"
    /\ parse.params_str = ArgWellFormed
    /\ Len(parse.calls) = 1
    /\ DictHas(parse.params, PyStr(<<"b">>))

\* the pieces of an argument text between its commas, stripped of whitespace
PiecesOf(text) ==
    [i \in 1..Len(Split(text, ",")) |-> Strip(Split(text, ",")[i], Whitespace)]
\* the key of a piece that holds "=": the text before the first "=", stripped
KeyOf(piece) == Strip(SplitFirst(piece, "=")[1], Whitespace)
\* the text after the first "=" with whitespace stripped, then the double
\* quotes and then the single quotes at its ends
ValueOf(piece) ==
    Strip(Strip(Strip(SplitFirst(piece, "=")[2], Whitespace), {"\""}), {"'"})
Bracketed(value) ==
    value # <<>> /\ Head(value) = "[" /\ value[Len(value)] = "]"
\* piece i is the last piece of text that sets its key
LastForKey(text, i) ==
    \A j \in (i + 1)..Len(PiecesOf(text)) :
        Contains(PiecesOf(text)[j], "=") =>
            KeyOf(PiecesOf(text)[j]) # KeyOf(PiecesOf(text)[i])

\* C14: for an argument text on which the primary parse fails,
\* _parse_parameters returns a mapping (it does not raise) whose keys are
\* the keys of the pieces that hold "=", each piece giving the entry of its
\* key (the last piece of a key stands), and the value of a piece that is
\* not a bracketed list is the text after the first "=" with whitespace and
\* the quote characters at its ends stripped.
C14_FallbackIsBestEffort ==
    (parse.pc = "parsed" /\ Strip(parse.params_str, Whitespace) # <<>>
     /\ ~EvalDict(parse.params_str).ok) =>
        LET pieces == PiecesOf(parse.params_str)
        IN  /\ parse.params.t = "dict"
            /\ KeySet(parse.params)
                   = {KeyOf(pieces[i]) :
                          i \in {j \in 1..Len(pieces) : Contains(pieces[j], "=")}}
            /\ \A i \in 1..(Len(parse.params.l) \div 2) :
                   DictKeys(parse.params)[i].t = "str"
                   /\ DictValues(parse.params)[i].t # "raise"
            /\ \A i \in 1..Len(pieces) :
                   (Contains(pieces[i], "=") /\ LastForKey(parse.params_str, i)
                    /\ ~Bracketed(ValueOf(pieces[i]))) =>
                       DictGet(parse.params, PyStr(KeyOf(pieces[i])))
                           = PyStr(ValueOf(pieces[i]))

\* the text a=1, b= has been parsed by the permissive pass
C14_Witness ==
    /\ parse.pc = "parsed"
    /\ parse.params_str = ArgTrailingEmpty
    /\ ~EvalDict(parse.params_str).ok
    /\ parse.params = PyDict(<<PyStr(<<"a">>), PyStr(<<"1">>),
                               PyStr(<<"b">>), PyStr(<<>>)>>)

\* the tool lists agents are constructed with
ToolLists == {ToolsPlain, ToolsBuiltin}
\* the last tool of the list toolList that has the name of toolList[i]
LastNamed(toolList, i) ==
    toolList[CHOOSE j \in 1..Len(toolList) :
                 /\ toolList[j].name = toolList[i].name
                 /\ \A k \in (j + 1)..Len(toolList) :
                        toolList[k].name # toolList[i].name]

\* C15: the registry of an agent constructed with a tool list holds, for
\* every name of the list, exactly one entry, and it is the last tool of
\* that name in the list; a call of f, which the list <<f1, g, f2>> holds
\* twice, runs f2: what it returns is what f2 returns, never what f1 returns.
C15_LastRegistrationWins ==
    /\ \A a \in Agents, toolList \in ToolLists :
           tools[a] = Registry(toolList) =>
               \A i \in 1..Len(toolList) :
                   /\ Cardinality({j \in 1..Len(tools[a]) :
                                       tools[a][j].name = toolList[i].name}) = 1
                   /\ GetTool(tools[a], toolList[i].name) = LastNamed(toolList, i)
    /\ \A s \in Slots : \A i \in 1..Len(q[s].log) :
           (q[s].log[i].kind = "tool" /\ q[s].log[i].function = <<"f">>
            /\ tools[q[s].agent] = Registry(ToolsPlain)) =>
               /\ q[s].log[i].result # PyStr(<<"r1">>)
               /\ ~q[s].log[i].raised => q[s].log[i].result = PyStr(<<"r2">>)

\* a query on an agent constructed with <<f1, g, f2>> has called f and got
\* what f2 returns
C15_Witness ==
    \E s \in Slots : \E i \in 1..Len(q[s].log) :
        /\ tools[q[s].agent] = Registry(ToolsPlain)
        /\ Len(tools[q[s].agent]) = 2
        /\ q[s].log[i].kind = "tool"
        /\ q[s].log[i].function = <<"f">>
        /\ q[s].log[i].result = PyStr(<<"r2">>)

\* C16 as stated: for the argument text b=["x","y"], c= (on which the
\* primary parse fails) the permissive pass keeps the bracketed list in one
\* piece and gives the list ["x", "y"] under the key b.
C16_ListSurvivesFallback ==
    (parse.pc = "parsed" /\ parse.params_str = ArgListThenEmpty) =>
        /\ ~EvalDict(parse.params_str).ok
        /\ DictHas(parse.params, PyStr(<<"b">>))
        /\ DictGet(parse.params, PyStr(<<"b">>))
               = PyList(<<PyStr(<<"x">>), PyStr(<<"y">>)>>)

\* a value of the kinds the argument grammar names: a string, a number, a
\* boolean, or a list of strings
LiteralKind(v) ==
    \/ v.t \in {"str", "int", "bool"}
    \/ v.t = "list" /\ \A i \in 1..Len(v.l) : v.l[i].t = "str"

\* C19 as stated: every value of the mapping _parse_parameters returns, and
\* of the mapping of every parsed call, is a string, a number, a boolean or
\* a list of strings.
C19_OnlyLiteralKinds ==
    parse.pc = "parsed" =>
        /\ \A i \in 1..(Len(parse.params.l) \div 2) :
               LiteralKind(DictValues(parse.params)[i])
        /\ \A c \in 1..Len(parse.calls) :
               \A i \in 1..(Len(parse.calls[c].parameters.l) \div 2) :
                   LiteralKind(DictValues(parse.calls[c].parameters)[i])

\* the names of the markers of text that reg holds, in the order of the text
RecognizedNames(reg, text) ==
    LET kept == SelectSeq(FindAll(text), LAMBDA m : HasTool(reg, m.func_name))
    IN  [i \in 1..Len(kept) |-> kept[i].func_name]
FunctionsOf(seq) == [i \in 1..Len(seq) |-> seq[i].function]
\* the rendered results of a sequence of tool events, as a fold-back has them
ResultsBlock(events) ==
    <<"Function Results:", "\n">>
    \o Join(<<"\n">>, [i \in 1..Len(events) |->
                          RenderResult(events[i].function, events[i].result).text])
    \o <<"\n">>
\* the last n elements of seq
LastN(seq, n) == SubSeq(seq, Len(seq) - n + 1, Len(seq))

\* C17: the calls parsed from a response name the registered functions of
\* its markers in the order of the text; the tools of an iteration are
\* executed in the order of the parsed calls, with the parsed arguments; the
\* records a query has appended to the call list are in the order of its
\* executions; and the fold-back of an iteration holds the rendered results
\* in that order.
C17_OrderIsPreserved ==
    \A s \in Slots :
        LET f == q[s]
            executed == EventsOf(f.log, "tool")
        IN  /\ \A i \in 1..Len(f.log) :
                   (f.log[i].kind = "model" /\ ~f.log[i].raised) =>
                       LET parsed == ParseFunctionCalls(tools[f.agent], f.log[i].text)
                           events == EventsIn(f.log, "tool", f.log[i].iteration)
                       IN  /\ FunctionsOf(parsed)
                                  = RecognizedNames(tools[f.agent], f.log[i].text)
                           /\ Len(events) <= Len(parsed)
                           /\ \A j \in 1..Len(events) :
                                  /\ events[j].function = parsed[j].function
                                  /\ events[j].parameters = parsed[j].parameters
                           /\ f.iteration >= f.log[i].iteration =>
                                  /\ Len(events) = Len(parsed)
                                  /\ IsSubstring(ResultsBlock(events),
                                                 f.conversation_history)
            /\ (Running(s) \/ nDirect = 0) =>
                   /\ Len(history[f.agent].calls) >= Len(executed)
                   /\ FunctionsOf(LastN(history[f.agent].calls, Len(executed)))
                          = FunctionsOf(executed)

\* a response with markers for g, the unknown h and f has been executed and
\* folded back: g ran before f
C17_Witness ==
    \E s \in Slots :
        /\ q[s].iteration = 1
        /\ q[s].log[1].text = TextCallGHF
        /\ FunctionsOf(EventsOf(q[s].log, "tool")) = <<<<"g">>, <<"f">>>>
        /\ FunctionsOf(history[q[s].agent].calls) = <<<<"g">>, <<"f">>>>
        /\ IsSubstring(ResultsBlock(EventsOf(q[s].log, "tool")),
                       q[s].conversation_history)

\* the call list went from before to after by exactly one record, which
\* names the function and the arguments of the call, has a timestamp, and
\* holds the value returned under result, or under error when the tool raised
OneRecord(before, after, function_name, kwargs, raised, result) ==
    /\ Len(after) = Len(before) + 1
    /\ SubSeq(after, 1, Len(before)) = before
    /\ Last(after).function = function_name
    /\ Last(after).parameters = kwargs
    /\ "timestamp" \in DOMAIN Last(after)
    /\ IF raised THEN Last(after).error = result ELSE Last(after).result = result

\* C18: every call of _execute_function on a registered tool, whether the
\* tool returns or raises, appends exactly one record that names the
\* function and the argument mapping of the call, and a step of a query that
\* executes no call appends none.  So the records a query adds are as many
\* as the recognized calls it has executed.
C18_OneRecordPerExecution ==
    [][/\ \A s \in Slots :
              q'[s] # q[s] =>
                  IF Executed(s)
                  THEN OneRecord(history[q[s].agent].calls,
                                 history'[q[s].agent].calls,
                                 Last(q'[s].log).function,
                                 Last(q'[s].log).parameters,
                                 Last(q'[s].log).raised,
                                 Last(q'[s].log).result)
                  ELSE history'[q'[s].agent].calls = history[q'[s].agent].calls
       /\ (nDirect' = nDirect + 1
           /\ HasTool(tools[direct'.agent], direct'.function_name)) =>
              OneRecord(history[direct'.agent].calls,
                        history'[direct'.agent].calls,
                        direct'.function_name, direct'.kwargs,
                        direct'.outcome.raises, direct'.result)]_vars

\* a query has executed two calls, one that returned and one that raised,
\* and the call list holds the two records
C18_Witness ==
    \E s \in Slots :
        /\ Len(EventsOf(q[s].log, "tool")) = 2
        /\ Len(history[q[s].agent].calls) = 2
        /\ \E i, j \in 1..2 :
               /\ "result" \in DOMAIN history[q[s].agent].calls[i]
               /\ "error" \in DOMAIN history[q[s].agent].calls[j]

\* C20: a query that has started and made no model call yet has an empty
\* transcript, iteration 0 and the caller's prompt as the current message;
\* its first prompt is the one built from an empty transcript and the
\* caller's prompt, and its k-th prompt holds k - 1 folded-back blocks,
\* those of its own earlier iterations, whatever earlier queries on the
\* agent did (the log counts the iterations from 1: the first model call is
\* made with iteration = 0).
C20_LoopStateIsPerQuery ==
    \A s \in Slots :
        LET f == q[s]
            m == EventsOf(f.log, "model")
        IN  /\ (f.pc = "loop" /\ f.log = <<>>) =>
                   /\ f.conversation_history = <<>>
                   /\ f.iteration = 0
                   /\ f.current_message = f.prompt
            /\ m # <<>> =>
                   /\ m[1].iteration = 1
                   /\ m[1].prompt =
                          FullPrompt(SystemPromptOf(f.agent),
                                     FunctionDescriptions(tools[f.agent]).text,
                                     <<>>, f.prompt)
            /\ \A k \in 1..Len(m) : FoldBacks(m[k].prompt) = k - 1

\* the first model call of a query on an agent whose earlier query executed
\* a call and folded its result back
C20_Witness ==
    \E s \in Slots :
        /\ nDirect = 0
        /\ nModel = 2
        /\ history[q[s].agent].calls # <<>>
        /\ Len(EventsOf(q[s].log, "model")) = 1
        /\ EventsOf(q[s].log, "tool") = <<>>

RECURSIVE TranscriptUpTo(_, _)
\* what the log says the transcript is after the fold-backs of iterations
\* 1..k: for each iteration in turn the response of its model call and the
\* rendered results of its tool calls
TranscriptUpTo(log, k) ==
    IF k = 0 THEN <<>>
    ELSE TranscriptUpTo(log, k - 1)
         \o <<"\n", "Assistant: ">> \o EventsIn(log, "model", k)[1].text \o <<"\n">>
         \o ResultsBlock(EventsIn(log, "tool", k))

\* C21: the transcript of a query is, after its n-th fold-back, the
\* exchanges of iterations 1..n one after the other, each the raw response
\* followed by the rendered results of that iteration (so a fold-back
\* appends to what was there and rewrites nothing); the k-th prompt holds
\* the transcript of iterations 1..k-1, and its current message is the
\* caller's prompt when k = 1 and the fixed instruction afterwards.
C21_TranscriptGrowsByAppending ==
    \A s \in Slots :
        LET f == q[s]
            m == EventsOf(f.log, "model")
        IN  /\ f.conversation_history = TranscriptUpTo(f.log, f.iteration)
            /\ \A k \in 1..Len(m) :
                   m[k].prompt =
                       FullPrompt(SystemPromptOf(f.agent),
                                  FunctionDescriptions(tools[f.agent]).text,
                                  TranscriptUpTo(f.log, k - 1),
                                  IF k = 1 THEN f.prompt ELSE FixedInstruction)

\* a query has folded back twice
C21_Witness ==
    \E s \in Slots :
        /\ q[s].iteration = 2
        /\ Len(EventsOf(q[s].log, "model")) = 2
        /\ FoldBacks(q[s].conversation_history) = 2

\* the events of a log are in the order of the iterations: an iteration has
\* one model call, which comes before the tool executions of the iteration,
\* and when the model call of the next iteration is there, every call parsed
\* from the response was executed, before it
IterationsInTurn(reg, log) ==
    /\ \A i, j \in 1..Len(log) : i < j => log[i].iteration <= log[j].iteration
    /\ \A i, j \in 1..Len(log) :
           (log[i].kind = "model" /\ log[j].kind = "model" /\ i # j) =>
               log[i].iteration # log[j].iteration
    /\ \A i \in 1..Len(log) :
           log[i].kind \in {"tool", "bind"} =>
               \E j \in 1..(i - 1) : /\ log[j].kind = "model"
                                     /\ ~log[j].raised
                                     /\ log[j].iteration = log[i].iteration
    /\ \A i, j \in 1..Len(log) :
           (/\ log[i].kind = "model"
            /\ log[j].kind = "model"
            /\ log[j].iteration = log[i].iteration + 1) =>
               LET events == EventsIn(log, "tool", log[i].iteration)
               IN  /\ i < j
                   /\ Len(events) = Len(ParseFunctionCalls(reg, log[i].text))
                   /\ events # <<>>
                   /\ \A e \in 1..Len(events) : ~events[e].propagated

\* C22: at every step of a query its model calls and tool executions have
\* happened iteration after iteration (model call k, then the executions of
\* all the calls of response k, then model call k + 1), and a query that has
\* returned or raised executes no tool.
C22_IterationsDoNotOverlap ==
    [][\A s \in Slots :
          /\ IterationsInTurn(tools[q'[s].agent], q'[s].log)
          /\ ~Running(s) => ~Executed(s)]_vars

\* the second model call of a query whose first response held two calls:
\* both were executed before it
C22_Witness ==
    \E s \in Slots :
        /\ Len(EventsOf(q[s].log, "model")) = 2
        /\ Len(EventsIn(q[s].log, "tool", 1)) = 2
        /\ Last(q[s].log).kind = "model"

\* what a query returns, worked out from its own log alone: the text of the
\* model when the last thing it did was to receive a text without calls, the
\* error string when the last thing raised, and otherwise (no iteration, or
\* a last iteration that folded back) the exhaustion message
ReturnValueOf(f) ==
    IF f.log = <<>> THEN ExhaustionMessage
    ELSE LET e == Last(f.log)
         IN  CASE e.kind = "model" ->
                    IF e.raised THEN ErrorPrefix \o e.text ELSE e.text
               [] e.kind = "bind" -> ErrorPrefix \o BindKeywords(e.parameters).msg
               [] e.kind = "tool" ->
                    IF ~RenderResult(e.function, e.result).ok
                    THEN ErrorPrefix \o RenderResult(e.function, e.result).msg
                    ELSE ExhaustionMessage

\* the loop state of frame f is what its own prompt and its own log make it
\* (the counter is the number of the last iteration of the log once that
\* iteration has folded back, and one less before)
OwnLoopState(reg, f) ==
    LET m == EventsOf(f.log, "model")
        folded == \/ f.pc \in {"loop", "model"}
                  \/ f.pc = "returned" /\ f.result = ExhaustionMessage
    IN  /\ f.iteration = (IF f.log = <<>> THEN 0
                          ELSE IF folded THEN Last(f.log).iteration
                          ELSE Last(f.log).iteration - 1)
        /\ f.conversation_history = TranscriptUpTo(f.log, f.iteration)
        /\ f.pc # "idle" =>
               f.current_message = (IF f.iteration = 0 THEN f.prompt
                                    ELSE FixedInstruction)
        /\ f.pc = "model" =>
               f.full_prompt = FullPrompt(SystemPromptOf(f.agent),
                                          FunctionDescriptions(reg).text,
                                          f.conversation_history,
                                          f.current_message)
        /\ \A k \in 1..Len(m) :
               m[k].prompt =
                   FullPrompt(SystemPromptOf(f.agent), FunctionDescriptions(reg).text,
                              TranscriptUpTo(f.log, k - 1),
                              IF k = 1 THEN f.prompt ELSE FixedInstruction)
        /\ f.pc = "returned" => f.result = ReturnValueOf(f)

\* C23: with two queries on one agent interleaved in any order, a step of
\* one query leaves the frame of the other (its iteration counter, its
\* transcript, its current message) and the registry as they were, and the
\* iteration counter, transcript, current message, prompts and return value
\* of a query are what its own prompt, its own model responses and its own
\* tool results make them; what both queries write is the history.
C23_QueriesShareNoLoopState ==
    [][\A s \in Slots :
          q'[s] # q[s] =>
              /\ \A t \in Slots \ {s} : q'[t] = q[t]
              /\ tools' = tools
              /\ OwnLoopState(tools[q'[s].agent], q'[s])]_vars

\* two queries on the same agent are in progress, each has executed a call
\* and folded it back, and the call list holds both records
C23_Witness ==
    /\ \A s \in Slots : Running(s) /\ q[s].agent = "A" /\ q[s].iteration = 1
    /\ q[1].prompt # q[2].prompt
    /\ Len(history["A"].calls) = 2

\* C24: no step of a query (with the parsing it does) and no call of
\* _execute_function changes the registry of any agent; and what a call of
\* _execute_function changes of the agent is the call list, by appending one
\* record: the responses list and the histories of the other agents are as
\* they were.
C24_RegistryIsImmutable ==
    [][/\ tools' = tools
       /\ \A a \in Agents :
              history'[a].calls # history[a].calls =>
                  /\ Len(history'[a].calls) = Len(history[a].calls) + 1
                  /\ SubSeq(history'[a].calls, 1, Len(history[a].calls))
                         = history[a].calls
                  /\ history'[a].responses = history[a].responses
                  /\ \A b \in Agents \ {a} : history'[b] = history[b]
       /\ (nDirect' # nDirect \/ \E s \in Slots : Executed(s)) =>
              \A a \in Agents : history'[a].responses = history[a].responses]_vars

\* the agent has run a query that executed a tool that raised, and
\* _execute_function has been called directly: the registry is the one the
\* agent was constructed with
C24_Witness ==
    /\ nDirect = 1
    /\ \E i \in 1..Len(q[1].log) : q[1].log[i].kind = "tool" /\ q[1].log[i].raised
    /\ Len(history["A"].calls) >= 2
    /\ tools["A"] = Registry(ToolsPlain)

\* C25: a query called with max_iterations <= 0 makes no model call and
\* executes no tool (its log stays empty and the count of model calls is
\* not raised), leaves the history as it was, and when it has returned it
\* has returned the exhaustion message.
C25_NoIterationsNoCalls ==
    [][\A s \in Slots :
          (q'[s] # q[s] /\ q'[s].max_iterations <= 0) =>
              /\ q'[s].log = <<>>
              /\ nModel' = nModel
              /\ history' = history
              /\ q'[s].pc \in {"loop", "returned"}
              /\ q'[s].pc = "returned" => q'[s].result = ExhaustionMessage]_vars

\* a query with max_iterations below 0 has returned, on an agent whose
\* history an earlier query has filled
C25_Witness ==
    \E s \in Slots :
        /\ q[s].pc = "returned"
        /\ q[s].max_iterations < 0
        /\ q[s].result = ExhaustionMessage
        /\ history[q[s].agent].responses # <<>>
        /\ history[q[s].agent].calls # <<>>

\* whether text ends with suffix
IsSuffix(suffix, text) ==
    /\ Len(suffix) <= Len(text)
    /\ SubSeq(text, Len(text) - Len(suffix) + 1, Len(text)) = suffix

\* the caller's prompt is quoted by none of the responses and tool results
\* of iterations 1..k of the log
NotQuoted(prompt, log, k) ==
    \A i \in 1..Len(log) :
        log[i].iteration <= k =>
            /\ log[i].kind = "model" => ~IsSubstring(prompt, log[i].text)
            /\ log[i].kind = "tool" =>
                   ~IsSubstring(prompt,
                                RenderResult(log[i].function, log[i].result).text)

\* C26: the first prompt of a query ends with the caller's prompt in the
\* user-message slot; every later prompt ends with the fixed instruction in
\* that slot, and (unless a response or a tool result of the query quotes
\* it) the caller's prompt occurs nowhere in it.
C26_OriginalPromptOnlyInFirstCall ==
    \A s \in Slots :
        LET f == q[s]
            m == EventsOf(f.log, "model")
        IN  \A k \in 1..Len(m) :
                IF k = 1
                THEN IsSuffix(<<"User: ">> \o f.prompt, m[k].prompt)
                ELSE /\ IsSuffix(<<"User: ">> \o FixedInstruction, m[k].prompt)
                     /\ NotQuoted(f.prompt, f.log, k - 1) =>
                            ~IsSubstring(f.prompt, m[k].prompt)

\* a query has made its second model call: the caller's prompt is in the
\* first prompt and not in the second
C26_Witness ==
    \E s \in Slots :
        LET m == EventsOf(q[s].log, "model")
        IN  /\ Len(m) = 2
            /\ IsSubstring(q[s].prompt, m[1].prompt)
            /\ ~IsSubstring(q[s].prompt, m[2].prompt)
            /\ FoldBacks(m[2].prompt) = 1

\* the tool of event e returned a value that json.dumps rejects
RenderFails(e) ==
    e.kind = "tool" /\ ~e.propagated /\ ~RenderResult(e.function, e.result).ok

\* C27: when a tool of a query has returned a dict or a list that cannot be
\* rendered, that execution is the last thing the query did: the query has
\* returned the error string with the message of the rendering failure, the
\* iteration has not folded back and no model call follows, and the call
\* list holds the call as a record with a result field (the value the tool
\* returned) and no error field.
C27_RenderFailureEndsQuery ==
    \A s \in Slots :
        LET f == q[s]
        IN  \A i \in 1..Len(f.log) :
                RenderFails(f.log[i]) =>
                    /\ i = Len(f.log)
                    /\ ~f.log[i].raised
                    /\ f.pc = "returned"
                    /\ f.result = ErrorPrefix \o JsonTypeError
                    /\ f.iteration = f.log[i].iteration - 1
                    /\ FoldBacks(f.conversation_history) = f.iteration
                    /\ \E j \in 1..Len(history[f.agent].calls) :
                           LET record == history[f.agent].calls[j]
                           IN  /\ record.function = f.log[i].function
                               /\ record.parameters = f.log[i].parameters
                               /\ DOMAIN record = {"function", "parameters",
                                                   "result", "timestamp"}
                               /\ record.result = f.log[i].result

\* a query whose model call succeeded has ended on a result that could not
\* be rendered, after another call of the same response was executed
C27_Witness ==
    \E s \in Slots :
        /\ q[s].log # <<>>
        /\ RenderFails(Last(q[s].log))
        /\ Len(EventsOf(q[s].log, "tool")) = 2
        /\ q[s].pc = "returned"
        /\ IsPrefix(ErrorPrefix, q[s].result)
        /\ Len(history[q[s].agent].calls) = 2

\* C28: every record of the call list has result or error and not both;
\* the record of a call a query has executed has error exactly when the tool
\* raised, and has result, holding the value returned, when the tool
\* returned, an {"error": ...} mapping included.
C28_ResultOrError ==
    /\ \A a \in Agents :
           \A i \in 1..Len(history[a].calls) :
               ("result" \in DOMAIN history[a].calls[i])
                   # ("error" \in DOMAIN history[a].calls[i])
    /\ \A s \in Slots :
           LET executed == EventsOf(q[s].log, "tool")
               records == history[q[s].agent].calls
           IN  (Running(s) \/ nDirect = 0) =>
                   \A j \in 1..Len(executed) :
                       LET record == records[Len(records) - Len(executed) + j]
                       IN  /\ ("error" \in DOMAIN record) = executed[j].raised
                           /\ ~executed[j].raised =>
                                  record.result = executed[j].result

\* a query has executed a tool that raised and a tool that returned an
\* {"error": ...} mapping of its own: the first is recorded with error, the
\* second with result
C28_Witness ==
    \E s \in Slots :
        LET executed == EventsOf(q[s].log, "tool")
            records == history[q[s].agent].calls
        IN  /\ Len(executed) = 2 /\ Len(records) = 2
            /\ executed[1].raised
            /\ ~executed[2].raised /\ IsErrorResult(executed[2].result)
            /\ "error" \in DOMAIN records[1]
            /\ "result" \in DOMAIN records[2] /\ IsErrorResult(records[2].result)

\* the queries on agent a that receive a text from the model in this step
Receiving(a) ==
    {s \in Slots : /\ q'[s].agent = a
                   /\ Len(q'[s].log) = Len(q[s].log) + 1
                   /\ Last(q'[s].log).kind = "model"
                   /\ ~Last(q'[s].log).raised}

\* C29: the step in which a query receives a text from the model appends
\* that text to the responses list of its agent, whether the text holds
\* calls or not (so the text is there before any of its calls is executed);
\* every other step, a model call that raises included, leaves the list as
\* it was.  So the list is as long as the number of model calls on the agent
\* that returned, which is at most the number of model calls made.
C29_ResponsesRecordedOnce ==
    [][\A a \in Agents :
          /\ IF Receiving(a) # {}
             THEN \E s \in Receiving(a) :
                      history'[a].responses
                          = Append(history[a].responses, Last(q'[s].log).text)
             ELSE history'[a].responses = history[a].responses
          /\ Len(history'[a].responses) <= nModel']_vars

\* two model calls were made, the first returned a text with a call and the
\* second raised: the responses list holds the one text
C29_Witness ==
    \E s \in Slots :
        /\ nModel = 2
        /\ Len(EventsOf(q[s].log, "model")) = 2
        /\ Last(q[s].log).kind = "model" /\ Last(q[s].log).raised
        /\ history[q[s].agent].responses = <<q[s].log[1].text>>
        /\ EventsOf(q[s].log, "tool") # <<>>

\* the text before the first occurrence of ch in text (all of text when ch
\* does not occur)
UpToFirst(text, ch) ==
    IF \E i \in 1..Len(text) : text[i] = ch
    THEN SubSeq(text, 1, (CHOOSE i \in 1..Len(text) :
                             text[i] = ch /\ \A j \in 1..(i - 1) : text[j] # ch) - 1)
    ELSE text

\* C30: the marker f(<argument text>) yields one call of f, whose
\* parameters are those parsed from the argument text up to its first ")"
\* (from all of it when it holds none): what follows that ")" is not part
\* of the call.
C30_CaptureEndsAtFirstParen ==
    parse.pc = "parsed" =>
        parse.calls =
            <<[function |-> <<"f">>,
               parameters |-> ParseParameters(UpToFirst(parse.params_str, ")"))]>>

\* the argument text a="x)", b=1 has been parsed: the call has a alone, and
\* not what the whole text would give
C30_Witness ==
    /\ parse.pc = "parsed"
    /\ parse.params_str = ArgParenInString
    /\ parse.calls = <<[function |-> <<"f">>,
                        parameters |-> PyDict(<<PyStr(<<"a">>), PyStr(<<"x">>)>>)]>>
    /\ parse.calls[1].parameters # ParseParameters(parse.params_str)

\* value is the text of a well-formed bracketed list: it is bracketed and
\* evaluates to a list
WellFormedList(value) ==
    Bracketed(value) /\ EvalExpr(value).ok /\ EvalExpr(value).v.t = "list"

\* C31 as stated: when the primary parse of an argument text fails, every
\* value that is not a well-formed bracketed list is stored as a string
\* (no number, no boolean); so a=1 alone gives the number 1 and a=1 in the
\* text a=1, b= gives the string "1".
C31_FallbackYieldsStrings ==
    parse.pc = "parsed" =>
        /\ parse.params_str = ArgScalarAlone =>
               parse.params = PyDict(<<PyStr(<<"a">>), PyInt(1)>>)
        /\ parse.params_str = ArgTrailingEmpty =>
               DictGet(parse.params, PyStr(<<"a">>)) = PyStr(<<"1">>)
        /\ (Strip(parse.params_str, Whitespace) # <<>>
            /\ ~EvalDict(parse.params_str).ok) =>
               LET pieces == PiecesOf(parse.params_str)
               IN  \A i \in 1..Len(pieces) :
                       (/\ Contains(pieces[i], "=")
                        /\ LastForKey(parse.params_str, i)
                        /\ ~WellFormedList(ValueOf(pieces[i]))) =>
                           DictGet(parse.params, PyStr(KeyOf(pieces[i]))).t = "str"

====
